---- MODULE Spec2Model ----
(***************************************************************************)
(* ranked_belief: lazy ranked cons-lists (Promise, RankingElement,         *)
(* RankingIterator) and the operation algebra built on them (merge,        *)
(* shift_ranks, merge_apply, filter, observe, normal_exceptional).         *)
(*                                                                         *)
(* Input rankings live on a heap of realised nodes (as from_list builds    *)
(* them); nodes may be shared between rankings.  Every operation is        *)
(* modelled by its recursion step: the node an operation returns carries   *)
(* the state its tail closure captured, and forcing the tail applies the   *)
(* step once more.  An iterator pulls the result one operator++ at a time. *)
(***************************************************************************)
EXTENDS Integers, Sequences, FiniteSets, TLC

VARIABLES
    heap,        \* realised input nodes: id -> [value, rank, next]; next = 0 is nullptr
    rf1,         \* head of the first input ranking (0 = empty)
    rf2,         \* head of the second input ranking (0 = empty)
    dedup,       \* the Deduplication flag handed to the operation
    func,        \* merge_apply's callback: value -> head of the ranking it returns
    pred,        \* filter/observe predicate: the set of values it accepts
    delta,       \* normal_exceptional's exceptional_rank
    op,          \* the operation whose result is being iterated
    pc,          \* "start" | "iter" | "end"
    cur,         \* RankingIterator::current_ (node) and the input it stems from (side)
    iterDedup,   \* RankingIterator::deduplicate_
    out,         \* the pairs operator* has yielded so far
    force_flag_, \* Promise::force_flag_ (std::once_flag)
    computation_,\* Promise::computation_: what it does when invoked (kind "null" once cleared)
    value_,      \* Promise::value_ ("null" while unset)
    exception_,  \* Promise::exception_ ("null" while unset)
    tpc,         \* per thread: its position inside force() and how it passed call_once
    forcesLeft,  \* per thread: force() calls it may still make
    results,     \* per thread: what its force() calls returned or raised
    execCount,   \* times the computation was invoked
    lazySeq,     \* the lazily built sequence that readers share: how it was made
    head_,       \* its RankingFunction::head_ ("unbuilt" before construction)
    promises,    \* per Promise of its nodes: once_flag, running thread, stored outcome
    calls,       \* per index: times the user closure was invoked for that element
    reader,      \* per reading thread: its position in first() and take_n
    args,        \* the arguments of the call under study
    ret          \* what that call returned, or the exception it threw

seqVars == <<heap, rf1, rf2, dedup, func, pred, delta, op, pc, cur, iterDedup, out>>
promiseVars == <<force_flag_, computation_, value_, exception_, tpc, forcesLeft, results, execCount>>
lazyVars == <<lazySeq, head_, promises, calls, reader>>
callVars == <<args, ret>>
vars == <<heap, rf1, rf2, dedup, func, pred, delta, op, pc, cur, iterDedup, out,
          force_flag_, computation_, value_, exception_, tpc, forcesLeft, results, execCount,
          lazySeq, head_, promises, calls, reader, args, ret>>

----------------------------------------------------------------------------
(* Bounds *)

NumNodes == 3
MaxRank == 2
NumThreads == 3
MaxForces == 2
MaxIndex == 2
MaxTake == 1

Values == {"a", "b"}

----------------------------------------------------------------------------
(* Rank (rank.hpp) on a scaled-down word *)

RankBits == 4

max_finite_value == 2 ^ (RankBits - 1) - 1

Rank(v, inf) == [value |-> v, is_infinity |-> inf]

zero == Rank(0, FALSE)

infinity == Rank(0, TRUE)

from_value(v) == Rank(v, FALSE)

FromValueThrows_AcceptsMax(value) == value > max_finite_value

(* from_value's range check: if (value >= max_finite_value()) throw *)
FromValueThrows(value) == value >= max_finite_value

RankEq(a, b) ==
    a.is_infinity = b.is_infinity /\ (a.is_infinity \/ a.value = b.value)

RankLT(a, b) ==
    IF a.is_infinity /\ b.is_infinity THEN FALSE
    ELSE IF a.is_infinity THEN FALSE
    ELSE IF b.is_infinity THEN TRUE
    ELSE a.value < b.value

RankLE(a, b) == RankLT(a, b) \/ RankEq(a, b)

AddThrows_OffByOne(a, b) ==
    /\ ~a.is_infinity /\ ~b.is_infinity
    /\ a.value >= (max_finite_value - b.value) % (2 ^ RankBits)

AddThrows(a, b) ==
    /\ ~a.is_infinity /\ ~b.is_infinity
    /\ a.value > (max_finite_value - b.value) % (2 ^ RankBits)

RankAdd(a, b) ==
    IF a.is_infinity \/ b.is_infinity THEN infinity
    ELSE Rank((a.value + b.value) % (2 ^ RankBits), FALSE)

SubThrows(a, b) ==
    a.is_infinity \/ b.is_infinity \/ a.value < b.value

RankSub(a, b) == Rank(a.value - b.value, FALSE)

Ranks == {from_value(v) : v \in 0..MaxRank} \cup {infinity}

----------------------------------------------------------------------------
(* Nodes.  A pointer to a RankingElement is a record; NullPtr is nullptr.  *)
(* kind "heap": an input node.  Two pointers are equal exactly when the    *)
(* records are equal.                                                      *)

NullPtr == [kind |-> "null"]

HeapPtr(i) == IF i = 0 THEN NullPtr ELSE [kind |-> "heap", id |-> i]

IsNull(p) == p.kind = "null"

RECURSIVE NodeValue(_), NodeRank(_), NodeNext(_)
RECURSIVE build_shifted(_, _), lazy_deepcopy_ranking_sequence(_)
RECURSIVE build_merged_impl(_, _, _), build_merged_self(_, _, _)
RECURSIVE MergedTail(_)
RECURSIVE build_filtered(_), build_normalized(_, _), build_taken(_, _)
RECURSIVE build_mapped_over(_, _)
RECURSIVE build_merge_apply(_), merge_with_ranks(_, _, _, _), ForcePromise(_)

(* make_lazy_node(value_wrapper, rank, next): the node a merge step emits. *)
(* The value wrapper reads the taken element; the tail closure captured    *)
(* elem1, elem2 and a rank.  side is the input the element was taken from. *)
make_lazy_node(impl, side, elem1, elem2, r) ==
    [kind |-> "merged", impl |-> impl, side |-> side, n1 |-> elem1, n2 |-> elem2, r |-> r]

build_shifted_Wraps(elem, shift_amount) ==
    IF IsNull(elem) THEN NullPtr
    ELSE [kind |-> "shift", src |-> elem, d |-> shift_amount]

(* shift_ranks' build_shifted lambda: a node over elem with rank + shift.  *)
build_shifted(elem, shift_amount) ==
    IF IsNull(elem) THEN NullPtr
    ELSE IF AddThrows(NodeRank(elem), shift_amount) THEN [kind |-> "threw", what |-> "overflow_error"]
    ELSE [kind |-> "shift", src |-> elem, d |-> shift_amount]

(* A lazy copy: same values and ranks, nodes of their own. *)
lazy_deepcopy_ranking_sequence(elem) ==
    IF IsNull(elem) THEN NullPtr ELSE [kind |-> "copy", src |-> elem]

build_merged_impl_NoRankCompare(elem1, elem2, seen_rank) ==
    IF elem1 = elem2 THEN elem1
    ELSE IF IsNull(elem1) THEN elem2
    ELSE IF IsNull(elem2) THEN elem1
    ELSE make_lazy_node("main", 1, elem1, elem2, NodeRank(elem1))

build_merged_impl_StrictLess(elem1, elem2, seen_rank) ==
    IF elem1 = elem2 THEN elem1
    ELSE IF IsNull(elem1) THEN elem2
    ELSE IF IsNull(elem2) THEN elem1
    ELSE IF RankEq(NodeRank(elem1), seen_rank)
         THEN make_lazy_node("main", 1, elem1, elem2, seen_rank)
    ELSE IF RankLT(NodeRank(elem1), NodeRank(elem2))
         THEN make_lazy_node("main", 1, elem1, elem2, NodeRank(elem1))
    ELSE make_lazy_node("main", 2, elem1, elem2, NodeRank(elem2))

(* merge's build_merged_impl for two distinct heads. *)
build_merged_impl(elem1, elem2, seen_rank) ==
    IF elem1 = elem2 THEN elem1
    ELSE IF IsNull(elem1) THEN elem2
    ELSE IF IsNull(elem2) THEN elem1
    ELSE IF RankEq(NodeRank(elem1), seen_rank)
         THEN make_lazy_node("main", 1, elem1, elem2, seen_rank)
    ELSE IF RankLE(NodeRank(elem1), NodeRank(elem2))
         THEN make_lazy_node("main", 1, elem1, elem2, NodeRank(elem1))
    ELSE make_lazy_node("main", 2, elem1, elem2, NodeRank(elem2))

build_merged_self_DropsCopy(elem1, elem2, seen_rank) == elem1

(* merge's local build_merged_impl of the self-merge branch. *)
build_merged_self(elem1, elem2, seen_rank) ==
    IF IsNull(elem1) THEN elem2
    ELSE IF IsNull(elem2) THEN elem1
    ELSE IF RankEq(NodeRank(elem1), seen_rank)
         THEN make_lazy_node("self", 1, elem1, elem2, seen_rank)
    ELSE IF RankLE(NodeRank(elem1), NodeRank(elem2))
         THEN make_lazy_node("self", 1, elem1, elem2, NodeRank(elem1))
    ELSE make_lazy_node("self", 2, elem1, elem2, NodeRank(elem2))

(* The tail promise of a merged node. *)
MergedTail(m) ==
    IF m.impl = "main"
    THEN IF m.side = 1
         THEN LET next_elem1 == NodeNext(m.n1)
              IN  IF next_elem1 = m.n2 THEN next_elem1
                  ELSE build_merged_impl(next_elem1, m.n2, m.r)
         ELSE LET next_elem2 == NodeNext(m.n2)
              IN  IF m.n1 = next_elem2 THEN m.n1
                  ELSE build_merged_impl(m.n1, next_elem2, m.r)
    ELSE IF m.side = 1
         THEN build_merged_self(NodeNext(m.n1), m.n2, m.r)
         ELSE build_merged_self(m.n1, NodeNext(m.n2), m.r)

build_filtered_KeepsAll(elem) ==
    IF IsNull(elem) THEN NullPtr ELSE [kind |-> "filt", src |-> elem]

(* filter's build_filtered lambda: skip to the first element the predicate  *)
(* accepts and wrap it; the wrapper's tail filters the rest.               *)
build_filtered(elem) ==
    IF IsNull(elem) THEN NullPtr
    ELSE IF NodeValue(elem) \in pred THEN [kind |-> "filt", src |-> elem]
    ELSE build_filtered(NodeNext(elem))

build_mapped_over_KeepsValue(elem, f) ==
    IF IsNull(elem) THEN NullPtr
    ELSE [kind |-> "mapped", src |-> elem, f |-> [x \in DOMAIN f |-> x]]

(* map's build_mapped lambda on a realised node: the value is func of the  *)
(* element's value, the rank is the element's, the tail maps the rest.     *)
build_mapped_over(elem, f) ==
    IF IsNull(elem) THEN NullPtr
    ELSE [kind |-> "mapped", src |-> elem, f |-> f]

build_taken_CountsFromZero(elem, remaining) ==
    IF IsNull(elem) THEN NullPtr
    ELSE [kind |-> "taken", src |-> elem, remaining |-> remaining]

(* take's build_taken lambda: a node over elem whose tail counts down. *)
build_taken(elem, remaining) ==
    IF remaining = 0 \/ IsNull(elem) THEN NullPtr
    ELSE [kind |-> "taken", src |-> elem, remaining |-> remaining]

adjusted_rank_Unshifted(current, shift_amount) == NodeRank(current)

(* normalize_with_shift: Rank adjusted_rank = current->rank() - shift_amount *)
adjusted_rank(current, shift_amount) == RankSub(NodeRank(current), shift_amount)

(* normalize_with_shift's build_normalized lambda. *)
build_normalized(current, shift_amount) ==
    IF IsNull(current) THEN NullPtr
    ELSE IF NodeRank(current).is_infinity THEN NullPtr
    ELSE IF SubThrows(NodeRank(current), shift_amount)
         THEN [kind |-> "threw", what |-> "underflow_error"]
    ELSE [kind |-> "norm", src |-> current, d |-> shift_amount]

(* A RankingFunction: head pointer and deduplicate_ flag. *)
RankingFunction(head, deduplicate) == [head |-> head, dedup |-> deduplicate]

(* shift_ranks(rf, shift_amount) *)
shift_ranks(rf, shift_amount) ==
    IF RankEq(shift_amount, zero) THEN rf
    ELSE RankingFunction(build_shifted(rf.head, shift_amount), rf.dedup)

(* ElementPromisePtr: a null pointer, the unforced rest of merge_apply     *)
(* over next_input, or a promise that returns a node already in hand.      *)
NoPromise == [pk |-> "none"]

RestPromise(next_input) == [pk |-> "build", elem |-> next_input]

ReadyPromise(node) == [pk |-> "ready", node |-> node]

(* second_promise->force() *)
ForcePromise(sp) ==
    IF sp.pk = "build" THEN build_merge_apply(sp.elem) ELSE sp.node

RankOrInfinity(p) == IF IsNull(p) \/ p.kind = "threw" THEN infinity ELSE NodeRank(p)

(* detail::merge_with_ranks *)
merge_with_ranks(first, first_rank, second_promise, second_min_rank) ==
    IF first.kind = "threw" THEN first
    ELSE IF IsNull(first)
    THEN IF second_promise.pk # "none" THEN ForcePromise(second_promise) ELSE NullPtr
    ELSE IF RankEq(second_min_rank, infinity) \/ second_promise.pk = "none" THEN first
    ELSE IF RankLE(first_rank, second_min_rank)
         THEN [kind |-> "mwr1", first |-> first, first_rank |-> first_rank,
               sp |-> second_promise, smr |-> second_min_rank]
    ELSE LET second == ForcePromise(second_promise)
         IN  IF second.kind = "threw" THEN second
             ELSE IF IsNull(second) THEN first
             ELSE LET second_next == NodeNext(second)
                  IN  [kind |-> "mwr2", second |-> second,
                       first |-> first, first_rank |-> first_rank,
                       sp |-> IF IsNull(second_next) THEN NoPromise ELSE ReadyPromise(second_next),
                       smr |-> RankOrInfinity(second_next)]

(* merge_apply's build_merge_apply lambda; func is the user's callback. *)
build_merge_apply(elem) ==
    IF IsNull(elem) THEN NullPtr
    ELSE LET current_rank == NodeRank(elem)
             result_rf == RankingFunction(HeapPtr(func[NodeValue(elem)]), TRUE)
             shifted_head == shift_ranks(result_rf, current_rank).head
             next_input == NodeNext(elem)
         IN  merge_with_ranks(
                 shifted_head,
                 RankOrInfinity(shifted_head),
                 IF IsNull(next_input) THEN NoPromise ELSE RestPromise(next_input),
                 RankOrInfinity(next_input))

(* merge(rf1, rf2, deduplicate) *)
merge(a, b, deduplicate) ==
    IF a.head = b.head
    THEN IF ~deduplicate
         THEN RankingFunction(
                  build_merged_self(a.head, lazy_deepcopy_ranking_sequence(b.head), zero),
                  FALSE)
         ELSE a
    ELSE RankingFunction(build_merged_impl(a.head, b.head, zero), deduplicate)

(* normal_exceptional's ensure_exceptional: the thunk's ranking, shifted  *)
(* by exceptional_rank unless that is zero; call_once keeps one result.    *)
ensure_exceptional(exceptional, exceptional_rank) ==
    IF ~RankEq(exceptional_rank, zero) THEN shift_ranks(exceptional, exceptional_rank)
    ELSE exceptional

(* combined_head when the normal head leads: its tail merges the rest of   *)
(* normal with the whole exceptional ranking.                              *)
NormalHead(normal, exceptional, exceptional_rank, deduplicate) ==
    [kind |-> "nrm_head", normal |-> normal, exceptional |-> exceptional,
     exceptional_rank |-> exceptional_rank, deduplicate |-> deduplicate]

(* combined_head when the exceptional head leads: its tail merges the      *)
(* whole of normal with the rest of the exceptional ranking.               *)
ExceptionalHead(normal, exceptional, exceptional_rank, deduplicate) ==
    [kind |-> "exc_head", normal |-> normal, exceptional |-> exceptional,
     exceptional_rank |-> exceptional_rank, deduplicate |-> deduplicate]

(* normal_exceptional(normal, exceptional, exceptional_rank, deduplicate) *)
normal_exceptional(normal, exceptional, exceptional_rank, deduplicate) ==
    LET normal_head == normal.head
        exceptional_rf == ensure_exceptional(exceptional, exceptional_rank)
    IN  IF IsNull(normal_head) THEN exceptional_rf
        ELSE LET normal_rank == NodeRank(normal_head)
                 use_normal_head ==
                     ~(/\ RankLE(exceptional_rank, normal_rank)
                       /\ ~IsNull(exceptional_rf.head)
                       /\ RankLT(NodeRank(exceptional_rf.head), normal_rank))
             IN  IF use_normal_head \/ IsNull(exceptional_rf.head)
                 THEN RankingFunction(
                          NormalHead(normal, exceptional, exceptional_rank, deduplicate),
                          deduplicate)
                 ELSE RankingFunction(
                          ExceptionalHead(normal, exceptional, exceptional_rank, deduplicate),
                          deduplicate)

(* RankingElement::value() *)
NodeValue(p) ==
    CASE p.kind = "heap" -> heap[p.id].value
      [] p.kind = "shift" -> NodeValue(p.src)
      [] p.kind = "copy" -> NodeValue(p.src)
      [] p.kind = "merged" -> IF p.side = 1 THEN NodeValue(p.n1) ELSE NodeValue(p.n2)
      [] p.kind = "filt" -> NodeValue(p.src)
      [] p.kind = "taken" -> NodeValue(p.src)
      [] p.kind = "mapped" -> p.f[NodeValue(p.src)]
      [] p.kind = "norm" -> NodeValue(p.src)
      [] p.kind = "mwr1" -> NodeValue(p.first)
      [] p.kind = "mwr2" -> NodeValue(p.second)
      [] p.kind = "nrm_head" -> NodeValue(p.normal.head)
      [] p.kind = "exc_head" ->
            NodeValue(ensure_exceptional(p.exceptional, p.exceptional_rank).head)

(* RankingElement::rank() *)
NodeRank(p) ==
    CASE p.kind = "heap" -> heap[p.id].rank
      [] p.kind = "shift" -> RankAdd(NodeRank(p.src), p.d)
      [] p.kind = "copy" -> NodeRank(p.src)
      [] p.kind = "merged" -> IF p.side = 1 THEN NodeRank(p.n1) ELSE NodeRank(p.n2)
      [] p.kind = "filt" -> NodeRank(p.src)
      [] p.kind = "taken" -> NodeRank(p.src)
      [] p.kind = "mapped" -> NodeRank(p.src)
      [] p.kind = "norm" -> adjusted_rank(p.src, p.d)
      [] p.kind = "mwr1" -> p.first_rank
      [] p.kind = "mwr2" -> NodeRank(p.second)
      [] p.kind = "nrm_head" -> NodeRank(p.normal.head)
      [] p.kind = "exc_head" ->
            NodeRank(ensure_exceptional(p.exceptional, p.exceptional_rank).head)

(* RankingElement::next(): forces the tail promise. *)
NodeNext(p) ==
    CASE p.kind = "heap" -> HeapPtr(heap[p.id].next)
      [] p.kind = "shift" -> build_shifted(NodeNext(p.src), p.d)
      [] p.kind = "copy" -> lazy_deepcopy_ranking_sequence(NodeNext(p.src))
      [] p.kind = "merged" -> MergedTail(p)
      [] p.kind = "filt" -> build_filtered(NodeNext(p.src))
      [] p.kind = "taken" -> build_taken(NodeNext(p.src), p.remaining - 1)
      [] p.kind = "mapped" -> build_mapped_over(NodeNext(p.src), p.f)
      [] p.kind = "norm" -> build_normalized(NodeNext(p.src), p.d)
      [] p.kind = "mwr1" -> merge_with_ranks(NodeNext(p.first), RankOrInfinity(NodeNext(p.first)),
                                                p.sp, p.smr)
      [] p.kind = "mwr2" -> merge_with_ranks(p.first, p.first_rank, p.sp, p.smr)
      [] p.kind = "nrm_head" ->
            LET normal_tail == RankingFunction(NodeNext(p.normal.head), p.normal.dedup)
                exceptional_rf == ensure_exceptional(p.exceptional, p.exceptional_rank)
            IN  merge(normal_tail, exceptional_rf, p.deduplicate).head
      [] p.kind = "exc_head" ->
            LET realised == ensure_exceptional(p.exceptional, p.exceptional_rank)
                exceptional_tail == RankingFunction(NodeNext(realised.head), realised.dedup)
            IN  merge(p.normal, exceptional_tail, p.deduplicate).head

(* filter(rf, predicate, deduplicate) *)
filter(rf, deduplicate) == RankingFunction(build_filtered(rf.head), deduplicate)

(* map(rf, func, deduplicate) *)
map(rf, f, deduplicate) == RankingFunction(build_mapped_over(rf.head, f), deduplicate)

(* take(rf, n, deduplicate) *)
take(rf, n, deduplicate) ==
    IF n = 0 THEN RankingFunction(NullPtr, TRUE)
    ELSE RankingFunction(build_taken(rf.head, n), deduplicate)

(* observe, from its filtered ranking on: the head's rank becomes zero *)
renormalise(filtered) ==
    IF IsNull(filtered.head) THEN filtered
    ELSE IF NodeRank(filtered.head).is_infinity THEN RankingFunction(NullPtr, filtered.dedup)
    ELSE IF RankEq(NodeRank(filtered.head), zero) THEN filtered
    ELSE RankingFunction(build_normalized(filtered.head, NodeRank(filtered.head)),
                         filtered.dedup)

(* observe(rf, predicate, deduplicate) *)
observe(rf, deduplicate) == renormalise(filter(rf, deduplicate))

----------------------------------------------------------------------------
(* RankingIterator.  A position is current_ together with the merge input  *)
(* the node was taken from (side: 1 = first, 2 = second, 0 = no merge).    *)

RECURSIVE skip_duplicates_of(_, _)

(* The input whose rest a merged node's tail hands back unmerged. *)
RemainderSide(m) ==
    IF m.side = 1 /\ IsNull(NodeNext(m.n1)) THEN 2 ELSE 1

SideOf(p) == IF p.kind = "merged" THEN p.side ELSE 0

(* current_ = current_->next() *)
IterStep(pos) ==
    LET nx == NodeNext(pos.node)
    IN  [node |-> nx,
         side |-> IF nx.kind = "merged" THEN nx.side
                  ELSE IF pos.node.kind = "merged" THEN RemainderSide(pos.node)
                  ELSE pos.side]

skip_duplicates_of_NoSkip(pos, prev_value) == pos

skip_duplicates_of(pos, prev_value) ==
    IF pos.node.kind = "threw" THEN pos
    ELSE IF ~IsNull(pos.node) /\ NodeValue(pos.node) = prev_value
    THEN skip_duplicates_of(IterStep(pos), prev_value)
    ELSE pos

(* RankingIterator::operator++ *)
Increment(pos, deduplicate) ==
    IF IsNull(pos.node) THEN pos
    ELSE IF deduplicate
         THEN skip_duplicates_of(IterStep(pos), NodeValue(pos.node))
         ELSE IterStep(pos)

\* RankingIterator's dereference operator
Deref(pos) == [value |-> NodeValue(pos.node), rank |-> NodeRank(pos.node), side |-> pos.side]

----------------------------------------------------------------------------
(* Reading a whole sequence: the (value, rank) pairs from node p on. *)

RECURSIVE Materialize(_)
Materialize(p) ==
    IF IsNull(p) THEN <<>>
    ELSE <<[value |-> NodeValue(p), rank |-> NodeRank(p)]>> \o Materialize(NodeNext(p))

Pair(e) == [value |-> e.value, rank |-> e.rank]

RECURSIVE TakeLoop(_, _, _)
(* take_n's loop from iterator position pos with count - consumed = left *)
TakeLoop(pos, deduplicate, left) ==
    IF IsNull(pos.node) \/ left = 0 THEN <<>>
    ELSE <<Pair(Deref(pos))>> \o TakeLoop(Increment(pos, deduplicate), deduplicate, left - 1)

(* take_n(rf, count) *)
take_n(rf, count) ==
    IF count = 0 \/ IsNull(rf.head) THEN <<>>
    ELSE TakeLoop([node |-> rf.head, side |-> 0], rf.dedup, count)

NonDecreasing(s) == \A i \in 1..(Len(s) - 1) : RankLE(s[i].rank, s[i + 1].rank)

Count(s, x) == Cardinality({i \in 1..Len(s) : Pair(s[i]) = x})

IsPrefix(s, t) == Len(s) <= Len(t) /\ \A i \in 1..Len(s) : Pair(s[i]) = Pair(t[i])

RECURSIVE FromSide(_, _)
FromSide(s, k) ==
    IF s = <<>> THEN <<>>
    ELSE IF Head(s).side = k THEN <<Head(s)>> \o FromSide(Tail(s), k)
    ELSE FromSide(Tail(s), k)

AllPairs == [value : Values, rank : Ranks \cup {from_value(v) : v \in 0..(2 * MaxRank)}]

----------------------------------------------------------------------------
(* Input heaps: n <= NumNodes nodes, next pointers acyclic, every node     *)
(* reachable from one of the given roots.                                  *)

NextFns(n) == {f \in [1..n -> 0..n] : \A i \in 1..n : f[i] = 0 \/ f[i] > i}

RECURSIVE Reach(_, _)
Reach(nx, i) == IF i = 0 THEN {} ELSE {i} \cup Reach(nx, nx[i])

(* Values matter only up to equality: the first node's value is fixed. *)
ValueFns(n) == {vs \in [1..n -> Values] : n = 0 \/ vs[1] = "a"}

MkHeap(n, vs, rs, nx) == [i \in 1..n |-> [value |-> vs[i], rank |-> rs[i], next |-> nx[i]]]

LazyIdle ==
    /\ lazySeq = [mode |-> "idle"]
    /\ head_ = [kind |-> "unbuilt"]
    /\ promises = <<>>
    /\ calls = <<>>
    /\ reader = <<>>

CallIdle ==
    /\ args = <<>>
    /\ ret = <<>>

PromiseIdle ==
    /\ force_flag_ = "idle"
    /\ computation_ = [kind |-> "null"]
    /\ value_ = "null"
    /\ exception_ = "null"
    /\ tpc = <<>>
    /\ forcesLeft = <<>>
    /\ results = <<>>
    /\ execCount = 0

----------------------------------------------------------------------------
(* merge: take_n-style loop over merge(rf1, rf2, dedup).  merge reads an  *)
(* input's own flag only when it hands rf1 back (same heads, Enabled), so  *)
(* the flag of rf1 varies there and is fixed elsewhere.                    *)

InitMerge ==
    /\ \E n \in 0..NumNodes :
         \E nx \in NextFns(n), vs \in ValueFns(n), rs \in [1..n -> Ranks] :
           /\ heap = MkHeap(n, vs, rs, nx)
           /\ \E a \in 0..n, b \in 0..n, fl \in BOOLEAN :
                /\ Reach(nx, a) \cup Reach(nx, b) = 1..n
                /\ a # b => fl
                /\ rf1 = RankingFunction(HeapPtr(a), fl)
                /\ rf2 = RankingFunction(HeapPtr(b), TRUE)
    /\ dedup \in BOOLEAN
    /\ func = <<>>
    /\ pred = {}
    /\ delta = zero
    /\ op = "merge"
    /\ pc = "start"
    /\ cur = [node |-> NullPtr, side |-> 0]
    /\ iterDedup = FALSE
    /\ out = <<>>
    /\ PromiseIdle
    /\ LazyIdle
    /\ CallIdle

(* auto merged = merge(rf1, rf2, dedup); auto it = merged.begin(); *)
CallMerge ==
    /\ op = "merge" /\ pc = "start"
    /\ LET merged == merge(rf1, rf2, dedup)
       IN  /\ cur' = [node |-> merged.head,
                      side |-> IF merged.head.kind = "merged" THEN merged.head.side
                               ELSE IF IsNull(rf1.head) THEN 2 ELSE 1]
           /\ iterDedup' = merged.dedup
    /\ pc' = "iter"
    /\ UNCHANGED <<heap, rf1, rf2, dedup, func, pred, delta, op, out>>
    /\ UNCHANGED <<promiseVars, lazyVars, callVars>>

\* take_n's loop body: push_back the dereferenced iterator, then ++it
Advance ==
    /\ pc = "iter" /\ ~IsNull(cur.node) /\ cur.node.kind # "threw"
    /\ out' = Append(out, Deref(cur))
    /\ cur' = Increment(cur, iterDedup)
    /\ UNCHANGED <<heap, rf1, rf2, dedup, func, pred, delta, op, pc, iterDedup>>
    /\ UNCHANGED <<promiseVars, lazyVars, callVars>>

AtEnd ==
    /\ pc = "iter" /\ IsNull(cur.node)
    /\ pc' = "end"
    /\ UNCHANGED <<heap, rf1, rf2, dedup, func, pred, delta, op, cur, iterDedup, out>>
    /\ UNCHANGED <<promiseVars, lazyVars, callVars>>

(* forcing the tail raised: the failure leaves the loop *)
Raise ==
    /\ pc = "iter" /\ cur.node.kind = "threw"
    /\ pc' = "threw"
    /\ UNCHANGED <<heap, rf1, rf2, dedup, func, pred, delta, op, cur, iterDedup, out>>
    /\ UNCHANGED <<promiseVars, lazyVars, callVars>>

NextMerge == CallMerge \/ Advance \/ AtEnd

SpecMerge == InitMerge /\ [][NextMerge]_vars

----------------------------------------------------------------------------
(* observe: take_n-style loop over observe(rf1, pred, dedup) *)

RECURSIVE Iterate(_, _)
Iterate(pos, deduplicate) ==
    IF IsNull(pos.node) \/ pos.node.kind = "threw" THEN <<>>
    ELSE <<Deref(pos)>> \o Iterate(Increment(pos, deduplicate), deduplicate)

ChainFn(n) == [i \in 1..n |-> IF i = n THEN 0 ELSE i + 1]

InitObserve ==
    /\ \E n \in 0..NumNodes :
         \E vs \in ValueFns(n), rs \in [1..n -> Ranks] :
           /\ heap = MkHeap(n, vs, rs, ChainFn(n))
           /\ rf1 = RankingFunction(HeapPtr(IF n = 0 THEN 0 ELSE 1), TRUE)
    /\ rf2 = RankingFunction(NullPtr, TRUE)
    /\ dedup \in BOOLEAN
    /\ pred \in SUBSET Values
    /\ func = <<>>
    /\ delta = zero
    /\ op = "observe"
    /\ pc = "start"
    /\ cur = [node |-> NullPtr, side |-> 0]
    /\ iterDedup = FALSE
    /\ out = <<>>
    /\ PromiseIdle
    /\ LazyIdle
    /\ CallIdle

(* auto observed = observe(rf1, pred, dedup); auto it = observed.begin(); *)
CallObserve ==
    /\ op = "observe" /\ pc = "start"
    /\ LET observed == observe(rf1, dedup)
       IN  /\ cur' = [node |-> observed.head, side |-> 0]
           /\ iterDedup' = observed.dedup
    /\ pc' = "iter"
    /\ UNCHANGED <<heap, rf1, rf2, dedup, func, pred, delta, op, out>>
    /\ UNCHANGED <<promiseVars, lazyVars, callVars>>

NextObserve == CallObserve \/ Advance \/ AtEnd \/ Raise

SpecObserve == InitObserve /\ [][NextObserve]_vars

----------------------------------------------------------------------------
(* merge_apply: take_n-style loop over merge_apply(rf1, func, dedup).      *)
(* The input is a chain of k < NumNodes nodes; m < NumNodes other nodes    *)
(* hold the rankings the callback returns.                                 *)

ApplyNextFns(n, k) ==
    {f \in NextFns(n) : \A i \in 1..k : f[i] = (IF i = k THEN 0 ELSE i + 1)}

InitMergeApply ==
    /\ \E k \in 0..(NumNodes - 1), m \in 0..(NumNodes - 1) :
         LET n == k + m
         IN  \E nx \in ApplyNextFns(n, k), vs \in ValueFns(n), rs \in [1..n -> Ranks] :
              /\ heap = MkHeap(n, vs, rs, nx)
              /\ rf1 = RankingFunction(HeapPtr(IF k = 0 THEN 0 ELSE 1), TRUE)
              /\ \E f \in [Values -> {0} \cup (k + 1)..n] :
                   /\ UNION {Reach(nx, f[v]) : v \in Values} = (k + 1)..n
                   /\ func = f
    /\ rf2 = RankingFunction(NullPtr, TRUE)
    /\ dedup \in BOOLEAN
    /\ pred = {}
    /\ delta = zero
    /\ op = "merge_apply"
    /\ pc = "start"
    /\ cur = [node |-> NullPtr, side |-> 0]
    /\ iterDedup = FALSE
    /\ out = <<>>
    /\ PromiseIdle
    /\ LazyIdle
    /\ CallIdle

(* auto result = merge_apply(rf1, func, dedup); auto it = result.begin(); *)
CallMergeApply ==
    /\ op = "merge_apply" /\ pc = "start"
    /\ cur' = [node |-> build_merge_apply(rf1.head), side |-> 0]
    /\ iterDedup' = dedup
    /\ pc' = "iter"
    /\ UNCHANGED <<heap, rf1, rf2, dedup, func, pred, delta, op, out>>
    /\ UNCHANGED <<promiseVars, lazyVars, callVars>>

NextMergeApply == CallMergeApply \/ Advance \/ AtEnd

SpecMergeApply == InitMergeApply /\ [][NextMergeApply]_vars

----------------------------------------------------------------------------
(* normal_exceptional: take_n-style loop over                              *)
(* normal_exceptional(rf1, [] { return rf2; }, delta, dedup).  The thunk's *)
(* ranking may share nodes with normal.                                    *)

InitNrmExc ==
    /\ \E n \in 0..NumNodes :
         \E nx \in NextFns(n), vs \in ValueFns(n), rs \in [1..n -> Ranks] :
           /\ heap = MkHeap(n, vs, rs, nx)
           /\ \E a \in 0..n, b \in 0..n :
                /\ Reach(nx, a) \cup Reach(nx, b) = 1..n
                /\ rf1 = RankingFunction(HeapPtr(a), TRUE)
                /\ rf2 = RankingFunction(HeapPtr(b), TRUE)
    /\ dedup \in BOOLEAN
    /\ delta \in Ranks
    /\ func = <<>>
    /\ pred = {}
    /\ op = "normal_exceptional"
    /\ pc = "start"
    /\ cur = [node |-> NullPtr, side |-> 0]
    /\ iterDedup = FALSE
    /\ out = <<>>
    /\ PromiseIdle
    /\ LazyIdle
    /\ CallIdle

(* auto result = normal_exceptional(rf1, thunk, delta, dedup); result.begin() *)
CallNrmExc ==
    /\ op = "normal_exceptional" /\ pc = "start"
    /\ LET result == normal_exceptional(rf1, rf2, delta, dedup)
       IN  /\ cur' = [node |-> result.head, side |-> 0]
           /\ iterDedup' = result.dedup
    /\ pc' = "iter"
    /\ UNCHANGED <<heap, rf1, rf2, dedup, func, pred, delta, op, out>>
    /\ UNCHANGED <<promiseVars, lazyVars, callVars>>

NextNrmExc == CallNrmExc \/ Advance \/ AtEnd

SpecNrmExc == InitNrmExc /\ [][NextNrmExc]_vars

----------------------------------------------------------------------------
(* RankingIterator over a list built by from_list: the loop               *)
(* for (auto it = rf1.begin(); it != rf1.end(); ++it) of collect.          *)

InitIterate ==
    /\ \E n \in 0..NumNodes :
         \E vs \in [1..n -> Values], rs \in [1..n -> Ranks], fl \in BOOLEAN :
           /\ heap = MkHeap(n, vs, rs, ChainFn(n))
           /\ rf1 = RankingFunction(HeapPtr(IF n = 0 THEN 0 ELSE 1), fl)
    /\ rf2 = RankingFunction(NullPtr, TRUE)
    /\ dedup = FALSE
    /\ func = <<>>
    /\ pred = {}
    /\ delta = zero
    /\ op = "iterate"
    /\ pc = "start"
    /\ cur = [node |-> NullPtr, side |-> 0]
    /\ iterDedup = FALSE
    /\ out = <<>>
    /\ PromiseIdle
    /\ LazyIdle
    /\ CallIdle

(* RankingFunction::begin(): iterator(head_, deduplicate_) *)
Begin ==
    /\ op = "iterate" /\ pc = "start"
    /\ cur' = [node |-> rf1.head, side |-> 0]
    /\ iterDedup' = rf1.dedup
    /\ pc' = "iter"
    /\ UNCHANGED <<heap, rf1, rf2, dedup, func, pred, delta, op, out>>
    /\ UNCHANGED <<promiseVars, lazyVars, callVars>>

NextIterate == Begin \/ Advance \/ AtEnd

SpecIterate == InitIterate /\ [][NextIterate]_vars

----------------------------------------------------------------------------
(* take followed by take_n: taken = take(rf1, n, dedup), then              *)
(* take_n(taken, m), for a list built by from_list in rank order.          *)

InitTake ==
    /\ \E k \in 0..NumNodes :
         \E vs \in [1..k -> Values], rs \in [1..k -> Ranks], fl \in BOOLEAN :
           /\ \A i \in 1..(k - 1) : RankLE(rs[i], rs[i + 1])
           /\ heap = MkHeap(k, vs, rs, ChainFn(k))
           /\ rf1 = RankingFunction(HeapPtr(IF k = 0 THEN 0 ELSE 1), fl)
    /\ rf2 = RankingFunction(NullPtr, TRUE)
    /\ dedup \in BOOLEAN
    /\ args \in [n : 0..NumNodes, m : 0..NumNodes]
    /\ ret = <<>>
    /\ func = <<>>
    /\ pred = {}
    /\ delta = zero
    /\ op = "take"
    /\ pc = "start"
    /\ cur = [node |-> NullPtr, side |-> 0]
    /\ iterDedup = FALSE
    /\ out = <<>>
    /\ PromiseIdle
    /\ LazyIdle

(* auto taken = take(rf1, n, dedup); *)
CallTake ==
    /\ op = "take" /\ pc = "start"
    /\ rf2' = take(rf1, args.n, dedup)
    /\ pc' = "taken"
    /\ UNCHANGED <<heap, rf1, dedup, func, pred, delta, op, cur, iterDedup, out>>
    /\ UNCHANGED <<promiseVars, lazyVars, callVars>>

(* auto result = take_n(taken, m); *)
CallTakeN ==
    /\ op = "take" /\ pc = "taken"
    /\ out' = take_n(rf2, args.m)
    /\ pc' = "end"
    /\ UNCHANGED <<heap, rf1, rf2, dedup, func, pred, delta, op, cur, iterDedup>>
    /\ UNCHANGED <<promiseVars, lazyVars, callVars>>

NextTake == CallTake \/ CallTakeN

SpecTake == InitTake /\ [][NextTake]_vars

----------------------------------------------------------------------------
(* An operation applied twice: map(map(rf1, f, inner), g, dedup) beside    *)
(* map(rf1, g . f, dedup), and filter(filter(rf1, p, inner), p, dedup)     *)
(* beside filter(rf1, p, dedup); each result is read to its end.           *)

Functions == [Values -> Values]

Identity == [x \in Values |-> x]

Composed(f, g) == [x \in Values |-> g[f[x]]]

(* Reading a finite ranking to its end with its own iterator. *)
ReadAll(rf) == take_n(rf, Len(heap) + 1)

InitCompose ==
    /\ \E k \in 0..NumNodes :
         \E vs \in [1..k -> Values], rs \in [1..k -> Ranks], fl \in BOOLEAN :
           /\ \A i \in 1..(k - 1) : RankLE(rs[i], rs[i + 1])
           /\ heap = MkHeap(k, vs, rs, ChainFn(k))
           /\ rf1 = RankingFunction(HeapPtr(IF k = 0 THEN 0 ELSE 1), fl)
    /\ rf2 = RankingFunction(NullPtr, TRUE)
    /\ dedup \in BOOLEAN
    /\ \/ /\ args \in [fn : {"map"}, f : Functions, g : Functions, inner : BOOLEAN]
          /\ pred = {}
       \/ /\ args \in [fn : {"filter"}, f : {Identity}, g : {Identity}, inner : BOOLEAN]
          /\ pred \in SUBSET Values
    /\ ret = <<>>
    /\ func = <<>>
    /\ delta = zero
    /\ op = "compose"
    /\ pc = "start"
    /\ cur = [node |-> NullPtr, side |-> 0]
    /\ iterDedup = FALSE
    /\ out = <<>>
    /\ PromiseIdle
    /\ LazyIdle

(* The operation under study applied to rf with function f and flag. *)
Applied(rf, f, deduplicate) ==
    IF args.fn = "map" THEN map(rf, f, deduplicate) ELSE filter(rf, deduplicate)

(* auto inner = op(rf1, f, inner);  auto twice = op(inner, g, dedup);      *)
(* auto once = op(rf1, [g, f](x) { return g(f(x)); }, dedup);              *)
CallOp ==
    /\ op = "compose" /\ pc \in {"start", "inner", "read"}
    /\ rf2' = Applied(IF pc = "inner" THEN rf2 ELSE rf1,
                      IF pc = "start" THEN args.f
                      ELSE IF pc = "inner" THEN args.g ELSE Composed(args.f, args.g),
                      IF pc = "start" THEN args.inner ELSE dedup)
    /\ pc' = IF pc = "start" THEN "inner" ELSE IF pc = "inner" THEN "twice" ELSE "once"
    /\ UNCHANGED <<heap, rf1, dedup, func, pred, delta, op, cur, iterDedup, out>>
    /\ UNCHANGED <<promiseVars, lazyVars, callVars>>

(* The pairs read are kept: those of the double application in out, those *)
(* of the single one in ret.                                               *)
Noted(pairs) ==
    /\ out' = IF pc = "twice" THEN pairs ELSE out
    /\ ret' = IF pc = "once" THEN pairs ELSE ret

(* take_n over the whole of the latest result *)
ReadResult ==
    /\ op = "compose" /\ pc \in {"twice", "once"}
    /\ Noted(ReadAll(rf2))
    /\ pc' = IF pc = "twice" THEN "read" ELSE "end"
    /\ UNCHANGED <<heap, rf1, rf2, dedup, func, pred, delta, op, cur, iterDedup, args>>
    /\ UNCHANGED <<promiseVars, lazyVars>>

NextCompose == CallOp \/ ReadResult

SpecCompose == InitCompose /\ [][NextCompose]_vars

----------------------------------------------------------------------------
(* merge_all: take_n-style loop over merge_all(rankings, dedup).  The      *)
(* vector holds up to MaxVector handles on nodes of one heap, so entries   *)
(* may be the same handle, share a tail, or be disjoint.                   *)

MaxVector == 3

RECURSIVE merge_all_loop(_, _, _, _)
(* for (i = 1; i < rankings.size(); ++i) result = merge(result, rankings[i], deduplicate) *)
merge_all_loop(result, rankings, i, deduplicate) ==
    IF i > Len(rankings) THEN result
    ELSE merge_all_loop(merge(result, rankings[i], deduplicate), rankings, i + 1, deduplicate)

(* merge_all(rankings, deduplicate) *)
merge_all(rankings, deduplicate) ==
    IF rankings = <<>> THEN RankingFunction(NullPtr, TRUE)
    ELSE IF Len(rankings) = 1 THEN rankings[1]
    ELSE merge_all_loop(rankings[1], rankings, 2, deduplicate)

Vectors(n) == UNION {[1..k -> 0..n] : k \in 0..MaxVector}

InitMergeAll ==
    /\ \E n \in 0..NumNodes :
         \E nx \in NextFns(n), vs \in ValueFns(n), rs \in [1..n -> Ranks] :
           /\ \A i \in 1..n : nx[i] # 0 => RankLE(rs[i], rs[nx[i]])
           /\ heap = MkHeap(n, vs, rs, nx)
           /\ \E v \in Vectors(n), fl \in BOOLEAN :
                /\ UNION {Reach(nx, v[i]) : i \in DOMAIN v} = 1..n
                /\ args = [rankings |-> [i \in DOMAIN v |-> RankingFunction(HeapPtr(v[i]), fl)]]
    /\ rf1 = RankingFunction(NullPtr, TRUE)
    /\ rf2 = RankingFunction(NullPtr, TRUE)
    /\ dedup \in BOOLEAN
    /\ func = <<>>
    /\ pred = {}
    /\ delta = zero
    /\ op = "merge_all"
    /\ pc = "start"
    /\ cur = [node |-> NullPtr, side |-> 0]
    /\ iterDedup = FALSE
    /\ out = <<>>
    /\ ret = <<>>
    /\ PromiseIdle
    /\ LazyIdle

(* auto merged = merge_all(rankings, dedup); auto it = merged.begin(); *)
CallMergeAll ==
    /\ op = "merge_all" /\ pc = "start"
    /\ LET merged == merge_all(args.rankings, dedup)
       IN  /\ cur' = [node |-> merged.head, side |-> 0]
           /\ iterDedup' = merged.dedup
    /\ pc' = "iter"
    /\ UNCHANGED <<heap, rf1, rf2, dedup, func, pred, delta, op, out>>
    /\ UNCHANGED <<promiseVars, lazyVars, callVars>>

NextMergeAll == CallMergeAll \/ Advance \/ AtEnd

SpecMergeAll == InitMergeAll /\ [][NextMergeAll]_vars

----------------------------------------------------------------------------
(* Promise<T>: NumThreads threads force one promise, each up to MaxForces  *)
(* times.  std::call_once lets one caller run the callable while the       *)
(* others block until the flag is set.                                     *)

Threads == 1..NumThreads

SeqIdle ==
    /\ heap = <<>>
    /\ rf1 = RankingFunction(NullPtr, TRUE)
    /\ rf2 = RankingFunction(NullPtr, TRUE)
    /\ dedup = FALSE
    /\ func = <<>>
    /\ pred = {}
    /\ delta = zero
    /\ pc = "start"
    /\ cur = [node |-> NullPtr, side |-> 0]
    /\ iterDedup = FALSE
    /\ out = <<>>

Computations ==
    [kind : {"returns"}, v : Values] \cup [kind : {"throws"}, v : {"runtime_error"}]

InitPromise ==
    /\ SeqIdle
    /\ LazyIdle
    /\ CallIdle
    /\ op = "promise"
    /\ \/ \* Promise(std::function<T()> computation)
          /\ computation_ \in Computations
          /\ value_ = "null"
          /\ force_flag_ = "not_called"
       \/ \* Promise(T value): call_once(force_flag_, []{}) in the constructor
          /\ computation_ = [kind |-> "null"]
          /\ value_ \in Values
          /\ force_flag_ = "done"
    /\ exception_ = "null"
    /\ tpc = [t \in Threads |-> [at |-> "idle", via |-> "none"]]
    /\ forcesLeft = [t \in Threads |-> MaxForces]
    /\ results = [t \in Threads |-> <<>>]
    /\ execCount = 0

OnceFree_NoExclusion(flag) == flag # "done"

(* std::call_once: the caller that may become the active execution. *)
OnceFree(flag) == flag = "not_called"

StoreOutcome_DropsException(comp) ==
    IF comp.kind = "returns" THEN [value |-> comp.v, exception |-> "null"]
    ELSE [value |-> "null", exception |-> "null"]

(* What execute_computation's try/catch leaves in (value_, exception_). *)
StoreOutcome(comp) ==
    IF comp.kind = "returns" THEN [value |-> comp.v, exception |-> "null"]
    ELSE IF comp.kind = "throws" THEN [value |-> "null", exception |-> comp.v]
    ELSE [value |-> "null", exception |-> "logic_error"]

(* a thread calls force() *)
ForceCall(t) ==
    /\ op \in {"promise", "move"} /\ force_flag_ # "idle"
    /\ tpc[t].at = "idle" /\ forcesLeft[t] > 0
    /\ forcesLeft' = [forcesLeft EXCEPT ![t] = @ - 1]
    /\ tpc' = [tpc EXCEPT ![t] = [at |-> "call_once", via |-> "none"]]
    /\ UNCHANGED <<force_flag_, computation_, value_, exception_, results, execCount>>
    /\ UNCHANGED <<seqVars, lazyVars, callVars>>

(* call_once finds the flag set: returns at once *)
OncePassive(t) ==
    /\ tpc[t].at = "call_once" /\ force_flag_ = "done"
    /\ tpc' = [tpc EXCEPT ![t] = [at |-> "check", via |-> "cached"]]
    /\ UNCHANGED <<force_flag_, computation_, value_, exception_, forcesLeft, results, execCount>>
    /\ UNCHANGED <<seqVars, lazyVars, callVars>>

(* call_once: this caller runs the callable *)
OnceEnter(t) ==
    /\ tpc[t].at = "call_once" /\ OnceFree(force_flag_)
    /\ force_flag_' = "running"
    /\ tpc' = [tpc EXCEPT ![t] = [at |-> "execute", via |-> "ran"]]
    /\ UNCHANGED <<computation_, value_, exception_, forcesLeft, results, execCount>>
    /\ UNCHANGED <<seqVars, lazyVars, callVars>>

(* call_once: another caller is running the callable; block *)
OnceBlock(t) ==
    /\ tpc[t].at = "call_once" /\ force_flag_ = "running" /\ ~OnceFree(force_flag_)
    /\ tpc' = [tpc EXCEPT ![t] = [at |-> "blocked", via |-> "waited"]]
    /\ UNCHANGED <<force_flag_, computation_, value_, exception_, forcesLeft, results, execCount>>
    /\ UNCHANGED <<seqVars, lazyVars, callVars>>

(* call_once: the blocked caller resumes once the flag is set *)
OnceWake(t) ==
    /\ tpc[t].at = "blocked" /\ force_flag_ = "done"
    /\ tpc' = [tpc EXCEPT ![t] = [at |-> "check", via |-> "waited"]]
    /\ UNCHANGED <<force_flag_, computation_, value_, exception_, forcesLeft, results, execCount>>
    /\ UNCHANGED <<seqVars, lazyVars, callVars>>

(* execute_computation: value already set -> return; else invoke computation_ *)
ExecuteInvoke(t) ==
    /\ tpc[t].at = "execute"
    /\ IF value_ # "null"
       THEN /\ tpc' = [tpc EXCEPT ![t].at = "once_return"]
            /\ UNCHANGED execCount
       ELSE /\ tpc' = [tpc EXCEPT ![t].at = "computing"]
            /\ execCount' = IF computation_.kind = "null" THEN execCount ELSE execCount + 1
    /\ UNCHANGED <<force_flag_, computation_, value_, exception_, forcesLeft, results>>
    /\ UNCHANGED <<seqVars, lazyVars, callVars>>

(* execute_computation: the computation returned or threw; store and clear *)
ExecuteStore(t) ==
    /\ tpc[t].at = "computing"
    /\ value_' = StoreOutcome(computation_).value
    /\ exception_' = StoreOutcome(computation_).exception
    /\ computation_' = [kind |-> "null"]
    /\ tpc' = [tpc EXCEPT ![t].at = "once_return"]
    /\ UNCHANGED <<force_flag_, forcesLeft, results, execCount>>
    /\ UNCHANGED <<seqVars, lazyVars, callVars>>

(* call_once: the callable returned normally; set the flag *)
OnceReturn(t) ==
    /\ tpc[t].at = "once_return"
    /\ force_flag_' = "done"
    /\ tpc' = [tpc EXCEPT ![t].at = "check"]
    /\ UNCHANGED <<computation_, value_, exception_, forcesLeft, results, execCount>>
    /\ UNCHANGED <<seqVars, lazyVars, callVars>>

(* force(): rethrow exception_, or throw on a missing value_, or return *value_ *)
ForceReturn(t) ==
    /\ tpc[t].at = "check"
    /\ results' = [results EXCEPT ![t] = Append(@,
           IF exception_ # "null" THEN [kind |-> "raised", v |-> exception_, via |-> tpc[t].via]
           ELSE IF value_ = "null" THEN [kind |-> "raised", v |-> "logic_error", via |-> tpc[t].via]
           ELSE [kind |-> "value", v |-> value_, via |-> tpc[t].via])]
    /\ tpc' = [tpc EXCEPT ![t] = [at |-> "idle", via |-> "none"]]
    /\ UNCHANGED <<force_flag_, computation_, value_, exception_, forcesLeft, execCount>>
    /\ UNCHANGED <<seqVars, lazyVars, callVars>>

NextPromise ==
    \E t \in Threads :
        \/ ForceCall(t)
        \/ OncePassive(t)
        \/ OnceEnter(t)
        \/ OnceBlock(t)
        \/ OnceWake(t)
        \/ ExecuteInvoke(t)
        \/ ExecuteStore(t)
        \/ OnceReturn(t)
        \/ ForceReturn(t)

SpecPromise == InitPromise /\ [][NextPromise]_vars

----------------------------------------------------------------------------
(* Rank::from_value and Rank::operator+ on every word of RankBits bits and *)
(* every pair of ranks a Rank object can hold.                             *)

Words == 0..(2 ^ RankBits - 1)

AllRanks == {from_value(v) : v \in 0..max_finite_value} \cup {infinity}

(* Rank::from_value(value): the rank, or the exception *)
FromValueResult(value) ==
    IF FromValueThrows(value) THEN [kind |-> "threw", what |-> "invalid_argument"]
    ELSE [kind |-> "rank", rank |-> from_value(value)]

(* a + b: the rank, or the exception *)
AddResult(a, b) ==
    IF a.is_infinity \/ b.is_infinity THEN [kind |-> "rank", rank |-> infinity]
    ELSE IF AddThrows(a, b) THEN [kind |-> "threw", what |-> "overflow_error"]
    ELSE [kind |-> "rank", rank |-> RankAdd(a, b)]

InitRank ==
    /\ SeqIdle
    /\ PromiseIdle
    /\ LazyIdle
    /\ op = "rank"
    /\ args \in [value : Words, a : AllRanks, b : AllRanks, fn : {"none"}]
    /\ ret = <<>>

(* Rank::from_value(value) *)
CallFromValue ==
    /\ op = "rank" /\ args.fn = "none"
    /\ args' = [args EXCEPT !.fn = "from_value"]
    /\ ret' = FromValueResult(args.value)
    /\ UNCHANGED <<seqVars, promiseVars, lazyVars>>

(* a + b *)
CallAdd ==
    /\ op = "rank" /\ args.fn = "none"
    /\ args' = [args EXCEPT !.fn = "add"]
    /\ ret' = AddResult(args.a, args.b)
    /\ UNCHANGED <<seqVars, promiseVars, lazyVars>>

NextRank == CallFromValue \/ CallAdd

SpecRank == InitRank /\ [][NextRank]_vars

----------------------------------------------------------------------------
(* Rank arithmetic in sequence: a program holds two ranks, a and b, and    *)
(* applies one operation after another to them; a result replaces a, a     *)
(* failure leaves both as they were.                                       *)

(* a - b *)
SubResult(a, b) ==
    IF a.is_infinity \/ b.is_infinity THEN [kind |-> "threw", what |-> "logic_error"]
    ELSE IF a.value < b.value THEN [kind |-> "threw", what |-> "underflow_error"]
    ELSE [kind |-> "rank", rank |-> Rank(a.value - b.value, FALSE)]

IncrementResult_NoLimit(a) ==
    IF a.is_infinity THEN [kind |-> "threw", what |-> "logic_error"]
    ELSE [kind |-> "rank", rank |-> Rank((a.value + 1) % (2 ^ RankBits), FALSE)]

\* ++a
IncrementResult(a) ==
    IF a.is_infinity THEN [kind |-> "threw", what |-> "logic_error"]
    ELSE IF a.value >= max_finite_value - 1 THEN [kind |-> "threw", what |-> "overflow_error"]
    ELSE [kind |-> "rank", rank |-> Rank((a.value + 1) % (2 ^ RankBits), FALSE)]

\* --a
DecrementResult(a) ==
    IF a.is_infinity THEN [kind |-> "threw", what |-> "logic_error"]
    ELSE IF a.value = 0 THEN [kind |-> "threw", what |-> "underflow_error"]
    ELSE [kind |-> "rank", rank |-> Rank(a.value - 1, FALSE)]

(* a.min(b) *)
MinResult(a, b) ==
    IF a.is_infinity THEN b
    ELSE IF b.is_infinity THEN a
    ELSE IF a.value <= b.value THEN a ELSE b

(* a.max(b) *)
MaxResult(a, b) ==
    IF a.is_infinity \/ b.is_infinity THEN infinity
    ELSE IF a.value >= b.value THEN a ELSE b

InitRankOps ==
    /\ SeqIdle
    /\ PromiseIdle
    /\ LazyIdle
    /\ op = "rank_ops"
    /\ args = [a |-> zero, b |-> zero, fn |-> "none"]
    /\ ret = <<>>

(* a = result, unless the operation threw *)
Assigned(fn, result) ==
    /\ args' = [a |-> IF result.kind = "rank" THEN result.rank ELSE args.a,
                b |-> args.b, fn |-> fn]
    /\ ret' = result

RankZero ==
    /\ op = "rank_ops"
    /\ Assigned("zero", [kind |-> "rank", rank |-> zero])
    /\ UNCHANGED <<seqVars, promiseVars, lazyVars>>

RankInfinity ==
    /\ op = "rank_ops"
    /\ Assigned("infinity", [kind |-> "rank", rank |-> infinity])
    /\ UNCHANGED <<seqVars, promiseVars, lazyVars>>

RankFromValue ==
    /\ op = "rank_ops"
    /\ \E value \in Words : Assigned("from_value", FromValueResult(value))
    /\ UNCHANGED <<seqVars, promiseVars, lazyVars>>

RankPlus ==
    /\ op = "rank_ops"
    /\ Assigned("plus", AddResult(args.a, args.b))
    /\ UNCHANGED <<seqVars, promiseVars, lazyVars>>

RankMinus ==
    /\ op = "rank_ops"
    /\ Assigned("minus", SubResult(args.a, args.b))
    /\ UNCHANGED <<seqVars, promiseVars, lazyVars>>

RankIncrement ==
    /\ op = "rank_ops"
    /\ Assigned("increment", IncrementResult(args.a))
    /\ UNCHANGED <<seqVars, promiseVars, lazyVars>>

RankDecrement ==
    /\ op = "rank_ops"
    /\ Assigned("decrement", DecrementResult(args.a))
    /\ UNCHANGED <<seqVars, promiseVars, lazyVars>>

RankMin ==
    /\ op = "rank_ops"
    /\ Assigned("min", [kind |-> "rank", rank |-> MinResult(args.a, args.b)])
    /\ UNCHANGED <<seqVars, promiseVars, lazyVars>>

RankMax ==
    /\ op = "rank_ops"
    /\ Assigned("max", [kind |-> "rank", rank |-> MaxResult(args.a, args.b)])
    /\ UNCHANGED <<seqVars, promiseVars, lazyVars>>

(* std::swap(a, b): the program goes on with the other rank *)
RankSwap ==
    /\ op = "rank_ops"
    /\ args' = [a |-> args.b, b |-> args.a, fn |-> "swap"]
    /\ ret' = <<>>
    /\ UNCHANGED <<seqVars, promiseVars, lazyVars>>

NextRankOps ==
    \/ RankZero \/ RankInfinity \/ RankFromValue
    \/ RankPlus \/ RankMinus \/ RankIncrement \/ RankDecrement
    \/ RankMin \/ RankMax \/ RankSwap

SpecRankOps == InitRankOps /\ [][NextRankOps]_vars

----------------------------------------------------------------------------
(* shift_ranks: take_n-style loop over shift_ranks(rf1, delta).  Ranks and *)
(* the shift range over every rank a Rank can hold, so sums reach past     *)
(* max_finite_value.  build_shifted adds eagerly: an overflow at the head  *)
(* leaves shift_ranks itself, one further on leaves the tail force.        *)

InitShift ==
    /\ \E k \in 0..NumNodes :
         \E vs \in ValueFns(k), rs \in [1..k -> AllRanks], fl \in BOOLEAN :
           /\ \A i \in 1..(k - 1) : RankLE(rs[i], rs[i + 1])
           /\ heap = MkHeap(k, vs, rs, ChainFn(k))
           /\ rf1 = RankingFunction(HeapPtr(IF k = 0 THEN 0 ELSE 1), fl)
    /\ rf2 = RankingFunction(NullPtr, TRUE)
    /\ dedup = FALSE
    /\ delta \in AllRanks
    /\ func = <<>>
    /\ pred = {}
    /\ op = "shift_ranks"
    /\ pc = "start"
    /\ cur = [node |-> NullPtr, side |-> 0]
    /\ iterDedup = FALSE
    /\ out = <<>>
    /\ PromiseIdle
    /\ LazyIdle
    /\ CallIdle

(* auto shifted = shift_ranks(rf1, delta); auto it = shifted.begin(); *)
CallShift ==
    /\ op = "shift_ranks" /\ pc = "start"
    /\ rf2' = shift_ranks(rf1, delta)
    /\ cur' = [node |-> rf2'.head, side |-> 0]
    /\ iterDedup' = rf2'.dedup
    /\ pc' = "iter"
    /\ UNCHANGED <<heap, rf1, dedup, func, pred, delta, op, out>>
    /\ UNCHANGED <<promiseVars, lazyVars, callVars>>

NextShift == CallShift \/ Advance \/ AtEnd \/ Raise

SpecShift == InitShift /\ [][NextShift]_vars

----------------------------------------------------------------------------
(* Moving a Promise: `other` is built from a computation and may be forced; *)
(* then either  Promise dst(std::move(other))  or  dst = std::move(other)   *)
(* for a dst built from its own computation and possibly forced before.     *)
(* One thread forces dst, before and after the move.                        *)

NullComputation == [kind |-> "null"]

(* Promise(std::function<T()> computation) as an object *)
NewPromise(computation) ==
    [computation_ |-> computation, value_ |-> "null", exception_ |-> "null",
     force_flag_ |-> "not_called"]

(* What force() gives on object p: the rethrown exception_, logic_error   *)
(* for a missing value_, or the value.                                     *)
Outcome(p) ==
    IF p.exception_ # "null" THEN [kind |-> "raised", v |-> p.exception_]
    ELSE IF p.value_ = "null" THEN [kind |-> "raised", v |-> "logic_error"]
    ELSE [kind |-> "value", v |-> p.value_]

(* The object after p.force() by one thread. *)
Forced(p) ==
    IF p.force_flag_ = "done" \/ p.value_ # "null" THEN [p EXCEPT !.force_flag_ = "done"]
    ELSE [computation_ |-> NullComputation,
          value_ |-> StoreOutcome(p.computation_).value,
          exception_ |-> StoreOutcome(p.computation_).exception,
          force_flag_ |-> "done"]

(* The members a moved-from Promise is left with. *)
MovedFrom(p) ==
    [p EXCEPT !.computation_ = NullComputation, !.value_ = "null", !.exception_ = "null"]

InitMove ==
    /\ SeqIdle
    /\ LazyIdle
    /\ op = "move"
    /\ \E c \in Computations, how \in {"construct", "assign"} :
          args = [other |-> NewPromise(c), how |-> how, moved |-> FALSE,
                  want |-> Outcome(NewPromise(c)), forcedBefore |-> FALSE,
                  resultsBefore |-> 0, execBefore |-> 0]
    /\ ret = <<>>
    /\ IF args.how = "assign"
       THEN /\ computation_ \in Computations
            /\ force_flag_ = "not_called"
       ELSE /\ computation_ = NullComputation
            /\ force_flag_ = "idle"
    /\ value_ = "null"
    /\ exception_ = "null"
    /\ tpc = [t \in Threads |-> [at |-> "idle", via |-> "none"]]
    /\ forcesLeft = [t \in Threads |-> IF t = 1 THEN MaxForces ELSE 0]
    /\ results = [t \in Threads |-> <<>>]
    /\ execCount = 0

(* other.force(), its failure caught by the caller *)
ForceOther ==
    /\ op = "move" /\ ~args.moved /\ args.other.force_flag_ # "done"
    /\ args' = [args EXCEPT !.other = Forced(@)]
    /\ UNCHANGED <<seqVars, promiseVars, lazyVars, ret>>

(* The members the move constructor and move assignment give *this;       *)
(* force_flag_ is not among them.                                          *)
MoveMembers(other) ==
    /\ computation_' = other.computation_
    /\ value_' = other.value_
    /\ exception_' = other.exception_

(* The moved-from source, and what it held when it was moved. *)
MoveNoted ==
    /\ args' = [args EXCEPT !.other = MovedFrom(@), !.moved = TRUE,
                            !.want = Outcome(args.other),
                            !.forcedBefore = (args.other.force_flag_ = "done"),
                            !.resultsBefore = Len(results[1]),
                            !.execBefore = execCount]
    /\ UNCHANGED <<tpc, forcesLeft, results, execCount>>
    /\ UNCHANGED <<seqVars, lazyVars, ret>>

(* Promise(Promise&& other): a new object, its once_flag fresh *)
MoveConstruct ==
    /\ op = "move" /\ args.how = "construct" /\ ~args.moved
    /\ MoveMembers(args.other)
    /\ force_flag_' = "not_called"
    /\ MoveNoted

(* operator=(Promise&& other): the once_flag of *this stays as it is *)
MoveAssign ==
    /\ op = "move" /\ args.how = "assign" /\ ~args.moved
    /\ tpc[1].at = "idle" /\ forcesLeft[1] > 0
    /\ MoveMembers(args.other)
    /\ UNCHANGED force_flag_
    /\ MoveNoted

NextMove ==
    \/ ForceOther
    \/ MoveConstruct
    \/ MoveAssign
    \/ ForceCall(1)
    \/ OncePassive(1)
    \/ OnceEnter(1)
    \/ ExecuteInvoke(1)
    \/ ExecuteStore(1)
    \/ OnceReturn(1)
    \/ ForceReturn(1)

SpecMove == InitMove /\ [][NextMove]_vars

----------------------------------------------------------------------------
(* Lazily built sequences read by several threads: from_generator(g, i0,   *)
(* dedup) and map(from_values_sequential(vs), f, dedup).  Each reader      *)
(* calls first() and then take_n(rf, count); one of them does so twice.    *)
(* Every node's next_ (and, for map, its value) is a Promise; a closure's  *)
(* n-th invocation for an element returns a result that depends on n, so   *)
(* memoization is what keeps readers in agreement.                         *)

Readers == {"r1", "r2"}

NoSlot == <<"none", 0>>

NoResult == [kind |-> "none"]

Other(v) == IF v = "a" THEN "b" ELSE "a"

(* The rank the generator, or from_values_sequential, gives index j. *)
IndexRank(j) == from_value(IF j > MaxRank THEN MaxRank ELSE j)

NextSlot(j) == <<"next", j>>

ValueSlot(j) == <<"value", j>>

Slots == {NextSlot(j) : j \in 0..MaxIndex} \cup {ValueSlot(j) : j \in 0..MaxIndex}

LazyNode(j, v) == [kind |-> "node", index |-> j, value |-> v, rank |-> IndexRank(j)]

(* What the n-th invocation of the user closure for index j returns:       *)
(* generator(j), or func(elem->value()) for map.                           *)
ClosureResult(j, n) ==
    LET r == IF lazySeq.mode = "generator" THEN lazySeq.elems[j]
             ELSE lazySeq.func[lazySeq.elems[j]]
    IN  IF r = "throws" THEN [kind |-> "threw", exc |-> <<j, n>>]
        ELSE [kind |-> "val", value |-> IF n = 1 THEN r ELSE Other(r)]

(* make_infinite_sequence(generator, j): the node, or the failure of generator(j). *)
make_infinite_sequence(j, n) ==
    LET r == ClosureResult(j, n)
    IN  IF r.kind = "threw" THEN r ELSE LazyNode(j, r.value)

(* map's build_mapped(elem): a node whose value is still a promise. *)
build_mapped(j) ==
    IF j \in DOMAIN lazySeq.elems THEN LazyNode(j, "lazy") ELSE NullPtr

(* Reader r1 reads the sequence twice, the others once. *)
NewReader(t) ==
    [pc |-> "first", at |-> NullPtr, prev |-> "none", consumed |-> 0, out |-> <<>>,
     fst |-> NoResult, log |-> <<>>, again |-> (t = "r1")]

FreshPromise == [flag |-> "not_called", owners |-> {}, outcome |-> [kind |-> "unset"], by |-> "none"]

InitLazy ==
    /\ \/ \E i0 \in 0..1 :
            \E g \in [i0..MaxIndex -> Values \cup {"throws"}] :
              lazySeq \in [mode : {"generator"}, elems : {g}, func : {<<>>}, start_index : {i0},
                           deduplicate : BOOLEAN, count : 0..MaxTake]
       \/ \E n \in 0..MaxIndex :
            \E vs \in [0..(n - 1) -> Values] :
              lazySeq \in [mode : {"map"}, elems : {vs}, func : [Values -> Values \cup {"throws"}],
                           start_index : {0}, deduplicate : BOOLEAN, count : 0..MaxTake]
    /\ head_ = [kind |-> "unbuilt"]
    /\ promises = [sl \in Slots |-> FreshPromise]
    /\ calls = [j \in 0..MaxIndex |-> 0]
    /\ reader = [t \in Readers |-> NewReader(t)]
    /\ op = "lazy"
    /\ SeqIdle
    /\ PromiseIdle
    /\ CallIdle

(* from_generator: make_infinite_sequence calls generator(start_index);    *)
(* map: build_mapped(rf.head()).                                           *)
Construct ==
    /\ lazySeq.mode # "idle" /\ head_.kind = "unbuilt"
    /\ IF lazySeq.mode = "generator"
       THEN /\ calls' = [calls EXCEPT ![lazySeq.start_index] = @ + 1]
            /\ head_' = make_infinite_sequence(lazySeq.start_index, calls[lazySeq.start_index] + 1)
       ELSE /\ head_' = build_mapped(0)
            /\ UNCHANGED calls
    /\ UNCHANGED <<lazySeq, promises, reader>>
    /\ UNCHANGED <<seqVars, promiseVars, callVars>>

Built == head_.kind \notin {"unbuilt", "threw"}

(* take_n's loop condition: it != end && consumed < count *)
LoopContinues_OneMore(at, consumed) == ~IsNull(at) /\ consumed <= lazySeq.count

LoopContinues(at, consumed) == ~IsNull(at) /\ consumed < lazySeq.count

(* The Promise reader t has to force next, if any. *)
Want(t) ==
    LET r == reader[t]
        lazyValue == lazySeq.mode = "map"
    IN  CASE r.pc = "first" ->
               IF lazyValue /\ ~IsNull(head_) THEN ValueSlot(head_.index) ELSE NoSlot
          [] r.pc = "deref" ->
               IF lazyValue /\ LoopContinues(r.at, r.consumed) THEN ValueSlot(r.at.index) ELSE NoSlot
          [] r.pc = "inc" -> NextSlot(r.at.index)
          [] r.pc = "skip" ->
               IF lazyValue /\ ~IsNull(r.at) THEN ValueSlot(r.at.index) ELSE NoSlot
          [] r.pc = "skipnext" -> NextSlot(r.at.index)
          [] OTHER -> NoSlot

(* std::call_once lets a caller run the callable only while no execution   *)
(* has started.                                                            *)
SlotFree_NoExclusion(p) == p.flag # "done"

SlotFree(p) == p.flag = "not_called"

(* The generator is modelled on indices up to MaxIndex only. *)
InRange(sl) == ~(lazySeq.mode = "generator" /\ sl[1] = "next" /\ sl[2] + 1 > MaxIndex)

(* call_once: t becomes the thread that runs the computation *)
LazyOnceEnter(t) ==
    /\ Built /\ Want(t) # NoSlot /\ InRange(Want(t))
    /\ t \notin promises[Want(t)].owners
    /\ SlotFree(promises[Want(t)])
    /\ promises' = [promises EXCEPT ![Want(t)] =
                      [@ EXCEPT !.flag = "running", !.owners = @ \cup {t}]]
    /\ UNCHANGED <<lazySeq, head_, calls, reader>>
    /\ UNCHANGED <<seqVars, promiseVars, callVars>>

(* What execute_computation stores: the value, or the captured exception. *)
Stored_ForgetsFailure(p, result) ==
    IF result.kind = "threw" THEN [p EXCEPT !.flag = "not_called", !.owners = {}]
    ELSE [p EXCEPT !.flag = "done", !.outcome = result]

Stored(p, result) == [p EXCEPT !.flag = "done", !.outcome = result]

(* Promise::execute_computation for the promise t is running *)
LazyExecute(t) ==
    /\ Built /\ Want(t) # NoSlot
    /\ LET sl == Want(t)
           j == sl[2]
           p == [promises[sl] EXCEPT !.owners = @ \ {t}, !.by = t]
       IN  /\ t \in promises[sl].owners
           /\ IF sl[1] = "value"
              THEN /\ calls' = [calls EXCEPT ![j] = @ + 1]
                   /\ promises' = [promises EXCEPT ![sl] = Stored(p, ClosureResult(j, calls[j] + 1))]
              ELSE IF lazySeq.mode = "generator"
              THEN /\ calls' = [calls EXCEPT ![j + 1] = @ + 1]
                   /\ promises' = [promises EXCEPT ![sl] =
                                     Stored(p, make_infinite_sequence(j + 1, calls[j + 1] + 1))]
              ELSE /\ promises' = [promises EXCEPT ![sl] = Stored(p, build_mapped(j + 1))]
                   /\ UNCHANGED calls
    /\ UNCHANGED <<lazySeq, head_, reader>>
    /\ UNCHANGED <<seqVars, promiseVars, callVars>>

(* take_n returns (err "none") or leaves by the failure err; the reader   *)
(* notes what it got and may start over once.                              *)
Finish(r, o, e) ==
    [r EXCEPT !.log = Append(@, [first |-> r.fst, out |-> o, err |-> e]),
              !.pc = IF r.again THEN "first" ELSE "done",
              !.again = FALSE, !.at = NullPtr, !.prev = "none",
              !.consumed = 0, !.out = <<>>, !.fst = NoResult]

(* One step of first() / take_n / the iterator's increment, given the     *)
(* outcome o of the promise the step had to force (NoResult if it had none). *)
ReaderStep(r, o) ==
    LET lazyValue == lazySeq.mode = "map"
        failed == o.kind = "threw"
    IN  CASE r.pc = "first" ->
               [r EXCEPT !.pc = "take",
                         !.fst = IF IsNull(head_) THEN [kind |-> "nullopt"]
                                 ELSE IF failed THEN o
                                 ELSE [kind |-> "pair",
                                       value |-> IF lazyValue THEN o.value ELSE head_.value,
                                       rank |-> head_.rank]]
          [] r.pc = "take" ->
               IF lazySeq.count = 0 \/ IsNull(head_) THEN Finish(r, <<>>, NoResult)
               ELSE [r EXCEPT !.at = head_, !.consumed = 0, !.out = <<>>, !.pc = "deref"]
          [] r.pc = "deref" ->
               IF ~LoopContinues(r.at, r.consumed) THEN Finish(r, r.out, NoResult)
               ELSE IF failed THEN Finish(r, r.out, o)
               ELSE LET v == IF lazyValue THEN o.value ELSE r.at.value
                    IN  [r EXCEPT !.out = Append(@, [value |-> v, rank |-> r.at.rank]),
                                  !.prev = v, !.pc = "inc"]
          [] r.pc = "inc" ->
               IF failed THEN Finish(r, r.out, o)
               ELSE IF lazySeq.deduplicate THEN [r EXCEPT !.at = o, !.pc = "skip"]
               ELSE [r EXCEPT !.at = o, !.consumed = @ + 1, !.pc = "deref"]
          [] r.pc = "skip" ->
               IF IsNull(r.at) THEN [r EXCEPT !.consumed = @ + 1, !.pc = "deref"]
               ELSE IF failed THEN Finish(r, r.out, o)
               ELSE IF (IF lazyValue THEN o.value ELSE r.at.value) = r.prev
                    THEN [r EXCEPT !.pc = "skipnext"]
               ELSE [r EXCEPT !.consumed = @ + 1, !.pc = "deref"]
          [] r.pc = "skipnext" ->
               IF failed THEN Finish(r, r.out, o)
               ELSE [r EXCEPT !.at = o, !.pc = "skip"]

(* force() returns the memoized outcome (or rethrows it) and the reader goes on *)
LazyProceed(t) ==
    /\ Built /\ reader[t].pc # "done"
    /\ Want(t) # NoSlot =>
          /\ promises[Want(t)].flag = "done"
          /\ t \notin promises[Want(t)].owners
    /\ reader' = [reader EXCEPT ![t] =
                    ReaderStep(@, IF Want(t) = NoSlot THEN NoResult ELSE promises[Want(t)].outcome)]
    /\ UNCHANGED <<lazySeq, head_, promises, calls>>
    /\ UNCHANGED <<seqVars, promiseVars, callVars>>

NextLazy ==
    \/ Construct
    \/ \E t \in Readers : LazyOnceEnter(t)
    \/ \E t \in Readers : LazyExecute(t)
    \/ \E t \in Readers : LazyProceed(t)

SpecLazy == InitLazy /\ [][NextLazy]_vars

----------------------------------------------------------------------------
(* C1: for non-decreasing inputs and either dedup setting, the ranks that  *)
(* iterating merge(rf1, rf2, dedup) yields never decrease.                 *)
C1_MergeRanksNonDecreasing ==
    (op = "merge" /\ NonDecreasing(Materialize(rf1.head)) /\ NonDecreasing(Materialize(rf2.head)))
        => NonDecreasing(out)

C1_Witness ==
    /\ op = "merge" /\ pc = "end"
    /\ NonDecreasing(Materialize(rf1.head)) /\ NonDecreasing(Materialize(rf2.head))
    /\ Len(out) >= 3
    /\ \E i, j, k \in 1..Len(out) :
         /\ i < j /\ j < k
         /\ out[i].side = 1 /\ out[j].side = 2 /\ out[k].side = 1
         /\ RankLT(out[i].rank, out[k].rank)

(* C3: with deduplication disabled and distinct heads, merge yields        *)
(* exactly the multiset union of both inputs' (value, rank) pairs.         *)
C3_MergeMultisetUnion ==
    (op = "merge" /\ pc = "end" /\ ~dedup /\ rf1.head # rf2.head)
        => \A x \in AllPairs :
             Count(out, x) = Count(Materialize(rf1.head), x) + Count(Materialize(rf2.head), x)

(* C9: with deduplication disabled and non-decreasing inputs, no element   *)
(* taken from the second input precedes an equal-ranked element taken from *)
(* the first, and the elements of each input appear in their own order.    *)
C9_MergeTieBreak ==
    (op = "merge" /\ ~dedup
        /\ NonDecreasing(Materialize(rf1.head)) /\ NonDecreasing(Materialize(rf2.head)))
        => /\ \A i, j \in 1..Len(out) :
                (i < j /\ RankEq(out[i].rank, out[j].rank)) => ~(out[i].side = 2 /\ out[j].side = 1)
           /\ IsPrefix(FromSide(out, 1), Materialize(rf1.head))
           /\ IsPrefix(FromSide(out, 2), Materialize(rf2.head))

C9_Witness ==
    /\ op = "merge" /\ pc = "end" /\ ~dedup
    /\ NonDecreasing(Materialize(rf1.head)) /\ NonDecreasing(Materialize(rf2.head))
    /\ \E i, j \in 1..Len(out) :
         /\ j = i + 1 /\ out[i].side = 1 /\ out[j].side = 2
         /\ RankEq(out[i].rank, out[j].rank)
    /\ Len(FromSide(out, 1)) >= 2

AllResults == UNION {{results[t][i] : i \in 1..Len(results[t])} : t \in DOMAIN results}

(* A promise built from a computation (not from a ready value). *)
HadComputation == computation_.kind # "null" \/ execCount > 0

(* C4: under concurrent force() the computation runs exactly once, every   *)
(* caller returns the one stored value, and nobody gets past call_once     *)
(* before the outcome is stored.                                           *)
C4_ForceExactlyOnce ==
    op = "promise" =>
        /\ execCount <= 1
        /\ \A t \in Threads :
             (tpc[t].at = "check" \/ results[t] # <<>>) =>
                 /\ value_ # "null" \/ exception_ # "null"
                 /\ HadComputation => execCount = 1
        /\ \A r \in AllResults : r.kind = "value" => (r.v = value_ /\ exception_ = "null")
        /\ exception_ = "null" => \A r \in AllResults : r.kind = "value"

C4_Witness ==
    /\ op = "promise" /\ execCount = 1
    /\ \E t1, t2, t3 \in Threads :
         /\ t1 # t2 /\ t2 # t3 /\ t1 # t3
         /\ results[t1] # <<>> /\ results[t1][1] = [kind |-> "value", v |-> value_, via |-> "ran"]
         /\ results[t2] # <<>> /\ results[t2][1] = [kind |-> "value", v |-> value_, via |-> "waited"]
         /\ results[t3] # <<>> /\ results[t3][1] = [kind |-> "value", v |-> value_, via |-> "waited"]

(* C5: once the computation has raised, every force() raises that same     *)
(* failure and the computation is not invoked again.                       *)
C5_FailureIsSticky ==
    (op = "promise" /\ \E r \in AllResults : r.kind = "raised") =>
        /\ execCount = 1
        /\ exception_ = "runtime_error" /\ value_ = "null"
        /\ \A r \in AllResults : r.kind = "raised" /\ r.v = exception_

C5_Witness ==
    /\ op = "promise" /\ execCount = 1 /\ exception_ = "runtime_error"
    /\ \E t1, t2 \in Threads :
         /\ t1 # t2
         /\ Len(results[t1]) >= 2
         /\ results[t1][1] = [kind |-> "raised", v |-> "runtime_error", via |-> "ran"]
         /\ results[t1][2] = [kind |-> "raised", v |-> "runtime_error", via |-> "cached"]
         /\ results[t2] # <<>>
         /\ results[t2][1] = [kind |-> "raised", v |-> "runtime_error", via |-> "waited"]

FiniteRanks(s) == \A i \in 1..Len(s) : ~s[i].rank.is_infinity

(* C6: for a non-decreasing input with finite ranks, observe yields the    *)
(* values of filter in the same order, its first rank is 0 and every rank  *)
(* is filter's rank minus filter's first rank.                             *)
C6_ObserveRenormalizes ==
    (op = "observe" /\ pc = "end"
        /\ NonDecreasing(Materialize(rf1.head)) /\ FiniteRanks(Materialize(rf1.head)))
        => LET filtered == filter(rf1, dedup)
               F == Iterate([node |-> filtered.head, side |-> 0], filtered.dedup)
           IN  /\ Len(out) = Len(F)
               /\ out # <<>> => out[1].rank = zero
               /\ \A i \in 1..Len(out) :
                    /\ out[i].value = F[i].value
                    /\ ~SubThrows(F[i].rank, F[1].rank)
                    /\ out[i].rank = RankSub(F[i].rank, F[1].rank)

C6_Witness ==
    /\ op = "observe" /\ pc = "end"
    /\ NonDecreasing(Materialize(rf1.head)) /\ FiniteRanks(Materialize(rf1.head))
    /\ Len(out) >= 2 /\ Len(out) < Len(Materialize(rf1.head))
    /\ out[1].rank = zero /\ RankLT(zero, out[2].rank)
    /\ RankLT(out[2].rank, heap[Len(heap)].rank)

(* C7: whatever the input ranking and the predicate, iterating             *)
(* observe(rf1, pred) yields no element of infinite rank.                  *)
C7_ObserveNeverInfinite ==
    op = "observe" => \A i \in 1..Len(out) : ~out[i].rank.is_infinity

(* The ranking the callback returns for value v. *)
FuncResult(v) == Materialize(HeapPtr(func[v]))

FuncResultsNonDecreasing == \A v \in Values : NonDecreasing(FuncResult(v))

(* C2: for a non-decreasing input and a callback whose rankings are        *)
(* non-decreasing, with any first rank, the ranks that iterating           *)
(* merge_apply(rf1, func, dedup) yields never decrease.                    *)
C2_MergeApplyRanksNonDecreasing ==
    (op = "merge_apply" /\ NonDecreasing(Materialize(rf1.head)) /\ FuncResultsNonDecreasing)
        => NonDecreasing(out)

(* Number of ways x arises as (w, r + t) with (v, r) in A, (w, t) in f(v). *)
ApplyCount(x) ==
    LET A == Materialize(rf1.head)
    IN  Cardinality({ij \in (1..Len(A)) \X (1..Len(heap)) :
            /\ ij[2] <= Len(FuncResult(A[ij[1]].value))
            /\ LET e == FuncResult(A[ij[1]].value)[ij[2]]
               IN  /\ e.value = x.value
                   /\ ~AddThrows(e.rank, A[ij[1]].rank)
                   /\ RankAdd(e.rank, A[ij[1]].rank) = x.rank})

(* C10: with deduplication disabled and finite input ranks, merge_apply    *)
(* yields exactly the multiset of (w, r + t) over (v, r) in the input and  *)
(* (w, t) in the callback's ranking for v.                                 *)
C10_MergeApplyMultiset ==
    (op = "merge_apply" /\ pc = "end" /\ ~dedup /\ FiniteRanks(Materialize(rf1.head)))
        => \A x \in AllPairs : Count(out, x) = ApplyCount(x)

Pairs(s) == [i \in 1..Len(s) |-> Pair(s[i])]

(* C8: for a non-empty non-decreasing normal ranking, any exceptional      *)
(* ranking, any offset and either dedup setting, normal_exceptional yields *)
(* the same (value, rank) sequence as merge(normal, shift_ranks(E, delta)).*)
C8_NormalExceptionalIsMerge ==
    (op = "normal_exceptional" /\ pc = "end"
        /\ ~IsNull(rf1.head) /\ NonDecreasing(Materialize(rf1.head)))
        => LET merged == merge(rf1, shift_ranks(rf2, delta), dedup)
           IN  Pairs(out) = Pairs(Iterate([node |-> merged.head, side |-> 0], merged.dedup))

(* s with every maximal run of equal consecutive values cut to its first element. *)
CollapseRuns(s) ==
    SelectSeq([i \in 1..Len(s) |-> [e |-> s[i], keep |-> (i = 1 \/ s[i].value # s[i - 1].value)]],
              LAMBDA x : x.keep)

(* C11: a deduplicating iterator yields the list with every maximal run of *)
(* equal consecutive values collapsed to the run's first node and rank; a  *)
(* non-deduplicating iterator yields every node.                           *)
C11_DedupCollapsesRuns ==
    op = "iterate" =>
        LET nodes == Materialize(rf1.head)
            kept == CollapseRuns(nodes)
            expected == IF rf1.dedup THEN [i \in 1..Len(kept) |-> kept[i].e] ELSE nodes
        IN  /\ IsPrefix(out, expected)
            /\ pc = "end" => Len(out) = Len(expected)

C11_Witness ==
    /\ op = "iterate" /\ pc = "end" /\ rf1.dedup
    /\ Len(heap) = 3 /\ Len(out) = 2
    /\ heap[1].value = heap[2].value /\ heap[2].value # heap[3].value
    /\ heap[1].rank # heap[2].rank

Values_Of(s) == {s[i].value : i \in 1..Len(s)}

Taken == UNION {{reader[t].out} \cup {reader[t].log[i].out : i \in 1..Len(reader[t].log)} : t \in Readers}

(* Every finished first() + take_n a reader has noted. *)
Runs == UNION {{reader[t].log[i] : i \in 1..Len(reader[t].log)} : t \in Readers}

(* C13: readers sharing a lazily generated sequence see the same pairs,   *)
(* and no user closure runs more than once for an element.                 *)
C13_ConcurrentReadersAgree ==
    op = "lazy" =>
        /\ \A j \in DOMAIN calls : calls[j] <= 1
        /\ \A s1, s2 \in Taken : IsPrefix(s1, s2) \/ IsPrefix(s2, s1)
        /\ \A r1, r2 \in Runs : r1 = r2

C13_Witness ==
    /\ op = "lazy"
    /\ \A t \in Readers : reader[t].log # <<>> /\ reader[t].log[1].out # <<>>
    /\ \E s1, s2 \in Slots :
         /\ promises[s1].by = "r1" /\ promises[s2].by = "r2"

(* How often the generator has been called in all. *)
TotalCalls == LET Sum[j \in -1..MaxIndex] == IF j < 0 THEN 0 ELSE Sum[j - 1] + calls[j]
              IN  Sum[MaxIndex]

(* The generator has been called only on start_index..start_index + k,    *)
(* once per index, k being the length of the prefix take_n asks for; and   *)
(* until a reader enters take_n's loop it has been called on start_index   *)
(* alone, exactly once.                                                    *)
GeneratorCallsWithinPrefix ==
    /\ \A j \in DOMAIN calls :
          /\ calls[j] <= 1
          /\ calls[j] = 1 => lazySeq.start_index <= j /\ j <= lazySeq.start_index + lazySeq.count
    /\ TotalCalls <= lazySeq.count + 1
    /\ (\A t \in Readers : reader[t].pc \in {"first", "take"} /\ reader[t].log = <<>>) =>
          calls = [j \in 0..MaxIndex |-> IF j = lazySeq.start_index THEN 1 ELSE 0]

(* C14 as stated: for from_generator with either dedup setting, g is      *)
(* called once at construction, first() adds no call, and a prefix of k    *)
(* elements costs calls on i0..i0+k only, once each, however often read.   *)
C14_GeneratorCallsBounded ==
    (op = "lazy" /\ lazySeq.mode = "generator" /\ head_.kind # "unbuilt") =>
        GeneratorCallsWithinPrefix

(* C14 amended: the same, for a sequence built with deduplication off or  *)
(* whose generator never returns the same value twice in a row.            *)
C14_GeneratorCallsBoundedNoRuns ==
    (/\ op = "lazy" /\ lazySeq.mode = "generator" /\ head_.kind # "unbuilt"
     /\ \/ ~lazySeq.deduplicate
        \/ \A j \in DOMAIN lazySeq.elems :
              (j + 1) \in DOMAIN lazySeq.elems /\ lazySeq.elems[j] # "throws"
                  => lazySeq.elems[j] # lazySeq.elems[j + 1])
    => GeneratorCallsWithinPrefix

C14_Witness ==
    /\ op = "lazy" /\ lazySeq.mode = "generator" /\ ~lazySeq.deduplicate
    /\ lazySeq.count = MaxTake /\ lazySeq.start_index = 0
    /\ lazySeq.elems[0] = lazySeq.elems[1]
    /\ Len(reader["r1"].log) = 2 /\ Len(reader["r1"].log[2].out) = MaxTake
    /\ reader["r2"].log # <<>>
    /\ TotalCalls = MaxTake + 1

(* Index of the first element whose closure raises, MaxIndex + 1 if none. *)
FirstThrowing ==
    LET bad == {j \in DOMAIN lazySeq.elems : ClosureResult(j, 1).kind = "threw"}
    IN  IF bad = {} THEN MaxIndex + 1 ELSE CHOOSE j \in bad : \A i \in bad : j <= i

(* The values a reader gets at positions before the first raising element. *)
ValueBefore(j) ==
    IF lazySeq.mode = "generator" THEN lazySeq.elems[j] ELSE lazySeq.func[lazySeq.elems[j]]

(* The pairs of the elements before the first raising one. *)
BeforeFailure ==
    [i \in 1..(FirstThrowing - lazySeq.start_index) |->
        [value |-> ValueBefore(lazySeq.start_index + i - 1),
         rank |-> IndexRank(lazySeq.start_index + i - 1)]]

(* C15: when a user closure raises for an element, every read that gets   *)
(* to that element ends there with the very error of the closure's one     *)
(* invocation, after yielding the elements before it, and the closure is   *)
(* not run for that element again.                                         *)
C15_FailureIsSticky ==
    op = "lazy" =>
        /\ \A j \in DOMAIN calls : calls[j] <= 1
        /\ \A run \in Runs :
              /\ run.first.kind = "threw" => run.first.exc = <<lazySeq.start_index, 1>>
              /\ run.err.kind = "threw" =>
                    /\ run.err.exc = <<FirstThrowing, 1>>
                    /\ LET kept == CollapseRuns(BeforeFailure)
                       IN  IsPrefix(run.out, IF lazySeq.deduplicate
                                             THEN [i \in 1..Len(kept) |-> kept[i].e]
                                             ELSE BeforeFailure)
              /\ \A other \in Runs : other = run

C15_Witness ==
    /\ op = "lazy"
    /\ Len(reader["r1"].log) = 2 /\ reader["r2"].log # <<>>
    /\ \A run \in Runs : run.err.kind = "threw" /\ run.out # <<>>
    /\ calls[FirstThrowing] = 1

(* How many next() calls lead from the head of rf1 to node p of rf1 or of  *)
(* its lazy copy.                                                          *)
Depth(p) == Len(Materialize(rf1.head)) - Len(Materialize(p))

(* How far into rf1 the iterator's current node has forced it. *)
ForcedOfInput(node) ==
    IF node.kind = "merged"
    THEN IF Depth(node.n1) >= Depth(node.n2) THEN Depth(node.n1) ELSE Depth(node.n2)
    ELSE Depth(node)

(* C16: merging a ranking with itself.  With deduplication merge hands     *)
(* back rf1 itself; without, the result yields every pair of rf1 twice, in *)
(* non-decreasing rank order, and after k pairs no more than k tails of    *)
(* rf1 have been forced.                                                   *)
C16_SelfMerge ==
    (op = "merge" /\ rf1.head = rf2.head /\ pc # "start") =>
        /\ dedup =>
              /\ merge(rf1, rf2, TRUE) = rf1
              /\ iterDedup = rf1.dedup
              /\ out = <<>> => cur.node = rf1.head
        /\ (~dedup /\ NonDecreasing(Materialize(rf1.head))) =>
              /\ ~iterDedup
              /\ NonDecreasing(out)
              /\ ForcedOfInput(cur.node) <= Len(out)
              /\ pc = "end" =>
                    \A x \in AllPairs : Count(out, x) = 2 * Count(Materialize(rf1.head), x)

C16_Witness ==
    /\ op = "merge" /\ rf1.head = rf2.head /\ pc = "end" /\ ~dedup
    /\ Len(heap) = NumNodes /\ Len(out) = 2 * NumNodes
    /\ NonDecreasing(Materialize(rf1.head))
    /\ \E i \in 1..(Len(heap) - 1) : ~RankEq(heap[i].rank, heap[i + 1].rank)

Min(x, y) == IF x <= y THEN x ELSE y

(* No two neighbouring nodes of rf1 hold equal values. *)
NoValueRuns == \A i \in 1..(Len(heap) - 1) : heap[i].value # heap[i + 1].value

(* C17 as stated: for every list, both flags of the list and of take, and  *)
(* all counts, take_n(take(rf1, n), m) is take_n(rf1, min(n, m)).          *)
C17_TakeThenTakeN ==
    (op = "take" /\ pc = "end") => out = take_n(rf1, Min(args.n, args.m))

(* C17 amended: the same when rf1 has no two neighbouring equal values, or *)
(* when neither rf1 nor the result of take deduplicates.                   *)
C17_TakeThenTakeNWithoutRuns ==
    (/\ op = "take" /\ pc = "end"
     /\ NoValueRuns \/ (~rf1.dedup /\ ~rf2.dedup))
    => out = take_n(rf1, Min(args.n, args.m))

C17_Witness ==
    /\ op = "take" /\ pc = "end"
    /\ ~rf1.dedup /\ ~rf2.dedup /\ ~NoValueRuns
    /\ Len(heap) = NumNodes /\ args.n = 2 /\ args.m = NumNodes
    /\ Len(out) = 2

(* What the forcing thread got from the destination after the move. *)
AfterMove == SubSeq(results[1], args.resultsBefore + 1, Len(results[1]))

(* C18: a Promise move-constructed or move-assigned from a forced source   *)
(* gives, when forced, the source's memoized value or failure and runs no  *)
(* computation, whatever state an assigned-to destination was in.          *)
C18_MovedPromiseKeepsOutcome ==
    (op = "move" /\ args.moved /\ args.forcedBefore) =>
        /\ execCount = args.execBefore
        /\ \A i \in 1..Len(AfterMove) :
              [kind |-> AfterMove[i].kind, v |-> AfterMove[i].v] = args.want

(* The same for a source that holds a value. *)
C18_MovedValueIsKept ==
    (op = "move" /\ args.moved /\ args.forcedBefore /\ args.want.kind = "value") =>
        /\ execCount = args.execBefore
        /\ \A i \in 1..Len(AfterMove) :
              [kind |-> AfterMove[i].kind, v |-> AfterMove[i].v] = args.want

C20_RankAddition ==
    (op = "rank" /\ args.fn = "add") =>
        /\ (args.a.is_infinity \/ args.b.is_infinity) =>
              ret = [kind |-> "rank", rank |-> infinity]
        /\ (~args.a.is_infinity /\ ~args.b.is_infinity) =>
              IF args.a.value + args.b.value < 2 ^ (RankBits - 1)
              THEN ret = [kind |-> "rank", rank |-> Rank(args.a.value + args.b.value, FALSE)]
              ELSE ret = [kind |-> "threw", what |-> "overflow_error"]
        /\ args.a = zero => ret = [kind |-> "rank", rank |-> args.b]
        /\ args.b = zero => ret = [kind |-> "rank", rank |-> args.a]
        /\ ret = AddResult(args.b, args.a)

C20_Witness ==
    /\ op = "rank" /\ args.fn = "add"
    /\ ~args.a.is_infinity /\ ~args.b.is_infinity
    /\ args.a.value + args.b.value = 2 ^ (RankBits - 1)
    /\ args.a.value > args.b.value /\ args.b.value > 0
    /\ ret.kind = "threw"

(* The kept elements of CollapseRuns(s), as pairs. *)
Collapsed(s) == LET kept == CollapseRuns(s) IN [i \in 1..Len(kept) |-> kept[i].e]

(* What a ranking with nodes s yields under the flag. *)
YieldedFrom(s, deduplicate) == IF deduplicate THEN Collapsed(s) ELSE s

(* C21: map(map(rf1, f), g) and map(rf1, g . f) yield the same pairs, the  *)
(* nodes of rf1 with g(f(value)) and unchanged ranks as the outer flag     *)
(* yields them, whatever the inner map's flag.                             *)
C21_MapFunctoriality ==
    (op = "compose" /\ pc = "end" /\ args.fn = "map") =>
        LET nodes == Materialize(rf1.head)
            image == [i \in 1..Len(nodes) |->
                        [value |-> args.g[args.f[nodes[i].value]], rank |-> nodes[i].rank]]
        IN  /\ out = ret
            /\ ret = YieldedFrom(image, dedup)

C21_Witness ==
    /\ op = "compose" /\ pc = "end" /\ args.fn = "map"
    /\ dedup /\ ~args.inner
    /\ Len(heap) = NumNodes /\ Len(out) = 2
    /\ args.f # Identity /\ args.g # Identity
    /\ \E i \in 1..(Len(heap) - 1) : heap[i].value # heap[i + 1].value

(* The pairs of s whose value the predicate accepts. *)
Accepted(s) == SelectSeq(s, LAMBDA e : e.value \in pred)

(* C22 as stated: filtering twice by p yields what filtering once yields,  *)
(* and that is exactly the elements rf1 yields that satisfy p, in order    *)
(* and with their ranks.                                                   *)
C22_FilterIdempotentExact ==
    (op = "compose" /\ pc = "end" /\ args.fn = "filter") =>
        /\ out = ret
        /\ ret = Accepted(ReadAll(rf1))

(* C22 amended: filtering twice by p yields what filtering once yields,    *)
(* namely the nodes of rf1 that satisfy p, in order and with their ranks,  *)
(* as filter's own flag yields them: all of them without deduplication,    *)
(* runs of equal values cut to their first with it.                        *)
C22_FilterIdempotent ==
    (op = "compose" /\ pc = "end" /\ args.fn = "filter") =>
        /\ out = ret
        /\ ret = YieldedFrom(Accepted(Materialize(rf1.head)), dedup)

C22_Witness ==
    /\ op = "compose" /\ pc = "end" /\ args.fn = "filter"
    /\ Len(heap) = NumNodes /\ pred = {"a"} /\ dedup /\ rf1.dedup
    /\ heap[1].value = "a" /\ heap[2].value = "b" /\ heap[NumNodes].value = "a"
    /\ Len(out) = 1


----------------------------------------------------------------------------
RECURSIVE CountAll(_, _)
CountAll(rankings, x) ==
    IF rankings = <<>> THEN 0
    ELSE Count(Materialize(Head(rankings).head), x) + CountAll(Tail(rankings), x)

(* C23: with deduplication disabled, merge_all over any vector of rankings *)
(* yields exactly the multiset union of the entries' (value, rank) pairs,  *)
(* in non-decreasing rank order.                                           *)
C23_MergeAllMultisetUnion ==
    (op = "merge_all" /\ pc = "end" /\ ~dedup)
        => /\ NonDecreasing(out)
           /\ \A x \in AllPairs : Count(out, x) = CountAll(args.rankings, x)

----------------------------------------------------------------------------
(* The calls of func that one evaluation makes, in order.  An entry names  *)
(* the input element and, when the call came from forcing the rest inside  *)
(* merge_with_ranks, the head of the shifted result the merge held then.   *)
Application(elem, forced, first) ==
    [elem |-> elem.id, forced |-> forced, exhausted |-> IsNull(first),
     first_rank |-> RankOrInfinity(first)]

RECURSIVE applied_build(_, _, _), applied_merge(_, _, _, _), applied_next(_)

(* second_promise->force(): a rest promise runs build_merge_apply once *)
applied_force(sp, first) ==
    IF sp.pk = "build" THEN applied_build(sp.elem, TRUE, first) ELSE <<>>

(* build_merge_apply(elem): func(current_value), then merge_with_ranks *)
applied_build(elem, forced, first) ==
    IF IsNull(elem) THEN <<>>
    ELSE LET shifted_head ==
                 shift_ranks(RankingFunction(HeapPtr(func[NodeValue(elem)]), TRUE),
                             NodeRank(elem)).head
             next_input == NodeNext(elem)
         IN  <<Application(elem, forced, first)>>
                 \o applied_merge(
                        shifted_head,
                        RankOrInfinity(shifted_head),
                        IF IsNull(next_input) THEN NoPromise ELSE RestPromise(next_input),
                        RankOrInfinity(next_input))

applied_merge_ForcesOnTie(first, first_rank, second_promise, second_min_rank) ==
    IF first.kind = "threw" THEN <<>>
    ELSE IF IsNull(first) THEN applied_force(second_promise, first)
    ELSE IF RankEq(second_min_rank, infinity) \/ second_promise.pk = "none" THEN <<>>
    ELSE IF RankLT(first_rank, second_min_rank) THEN <<>>
    ELSE applied_force(second_promise, first)

(* detail::merge_with_ranks: the rest is forced when first is null or its  *)
(* rank exceeds second_min_rank; second->next() is then forced at once.    *)
applied_merge(first, first_rank, second_promise, second_min_rank) ==
    IF first.kind = "threw" THEN <<>>
    ELSE IF IsNull(first) THEN applied_force(second_promise, first)
    ELSE IF RankEq(second_min_rank, infinity) \/ second_promise.pk = "none" THEN <<>>
    ELSE IF RankLE(first_rank, second_min_rank) THEN <<>>
    ELSE applied_force(second_promise, first)
             \o applied_next(ForcePromise(second_promise))

(* node->next() on a node of merge_apply's result *)
applied_next(p) ==
    CASE p.kind = "mwr1" ->
            applied_merge(NodeNext(p.first), RankOrInfinity(NodeNext(p.first)), p.sp, p.smr)
      [] p.kind = "mwr2" -> applied_merge(p.first, p.first_rank, p.sp, p.smr)
      [] OTHER -> <<>>

RECURSIVE applied_until(_, _)
(* The calls made by forcing the tails from node p up to the iterator's node. *)
applied_until(p, target) ==
    IF p = target \/ IsNull(p) \/ p.kind = "threw" THEN <<>>
    ELSE applied_next(p) \o applied_until(NodeNext(p), target)

(* Every call of func since merge_apply was called. *)
AppliedSoFar ==
    IF pc = "start" THEN <<>>
    ELSE applied_build(rf1.head, FALSE, NullPtr)
             \o applied_until(build_merge_apply(rf1.head), cur.node)

(* C24: func is applied to an input element other than the first only by  *)
(* forcing the rest while the head of the previous element's shifted       *)
(* result is exhausted or ranks strictly above that element; no input      *)
(* element is applied twice.                                               *)
C24_MergeApplyForcesRestLate ==
    op = "merge_apply" =>
        LET calls_ == AppliedSoFar
        IN  /\ \A i \in 1..Len(calls_) :
                 /\ calls_[i].forced = (calls_[i].elem # rf1.head.id)
                 /\ calls_[i].forced =>
                      \/ calls_[i].exhausted
                      \/ RankLT(heap[calls_[i].elem].rank, calls_[i].first_rank)
            /\ \A i, j \in 1..Len(calls_) : calls_[i].elem = calls_[j].elem => i = j

(* The rest was forced under a head that was still there, and an element  *)
(* had been emitted before from a head that ranked no higher than the      *)
(* next input element.                                                     *)
C24_Witness ==
    /\ op = "merge_apply" /\ pc = "end"
    /\ Len(out) >= 3
    /\ \E i \in 1..Len(AppliedSoFar) :
         /\ AppliedSoFar[i].forced /\ ~AppliedSoFar[i].exhausted
         /\ RankLE(out[1].rank, heap[AppliedSoFar[i].elem].rank)


----------------------------------------------------------------------------
(* Whether the exceptional thunk has run: normal_exceptional invokes it    *)
(* itself for an empty normal ranking, calls ensure_exceptional() when     *)
(* exceptional_rank <= normal_rank, and the head's next_promise calls      *)
(* ensure_exceptional() before it merges; call_once runs the thunk once.   *)
ThunkInvoked ==
    /\ op = "normal_exceptional" /\ pc # "start"
    /\ \/ IsNull(rf1.head)
       \/ RankLE(delta, NodeRank(rf1.head))
       \/ out # <<>>

(* C25: while only normal elements have been forced and the next normal    *)
(* element ranks strictly below delta, the exceptional thunk has not run.  *)
C25_ThunkDeferredBelowDelta ==
    (/\ op = "normal_exceptional" /\ pc = "iter"
     /\ NonDecreasing(Materialize(rf1.head))
     /\ ~IsNull(cur.node)
     /\ RankLT(NodeRank(cur.node), delta))
        => ~ThunkInvoked

----------------------------------------------------------------------------
RECURSIVE TailsForced(_)

TailsForced_BothInputs(p) ==
    CASE p.kind = "heap" -> {p.id}
      [] p.kind = "copy" -> TailsForced(p.src)
      [] p.kind = "shift" -> TailsForced(p.src)
      [] p.kind = "mapped" -> TailsForced(p.src)
      [] p.kind = "taken" -> TailsForced(p.src)
      [] p.kind = "merged" -> TailsForced(p.n1) \cup TailsForced(p.n2)

(* The input nodes whose tail promise node->next() forces: every derived   *)
(* node's tail closure calls next() on the node it was built over, and a   *)
(* merged node's closure on the input its element was taken from.          *)
TailsForced(p) ==
    CASE p.kind = "heap" -> {p.id}
      [] p.kind = "copy" -> TailsForced(p.src)
      [] p.kind = "shift" -> TailsForced(p.src)
      [] p.kind = "mapped" -> TailsForced(p.src)
      [] p.kind = "taken" -> TailsForced(p.src)
      [] p.kind = "merged" -> IF p.side = 1 THEN TailsForced(p.n1) ELSE TailsForced(p.n2)

RECURSIVE TailsForcedUntil(_, _)
(* The input tails forced by stepping an iterator from node p to target. *)
TailsForcedUntil(p, target) ==
    IF p = target \/ IsNull(p) THEN {}
    ELSE TailsForced(p) \cup TailsForcedUntil(NodeNext(p), target)

(* C26: iterating take(rf1, n) to exhaustion never forces the tail of      *)
(* rf1's n-th node.                                                        *)
C26_TakeLeavesTailUnforced ==
    (op = "take" /\ pc = "end" /\ args.n >= 1 /\ args.m >= args.n)
        => args.n \notin TailsForcedUntil(rf2.head, NullPtr)

----------------------------------------------------------------------------
RECURSIVE evaluated_by_build(_)

evaluated_by_build_OneAhead(elem) ==
    IF IsNull(elem) THEN <<>>
    ELSE <<elem.id>> \o evaluated_by_build(NodeNext(elem))

(* The source elements build_filtered(elem) calls the predicate on, in     *)
(* order: it stops at the first one accepted.                              *)
evaluated_by_build(elem) ==
    IF IsNull(elem) THEN <<>>
    ELSE <<elem.id>> \o (IF NodeValue(elem) \in pred THEN <<>>
                         ELSE evaluated_by_build(NodeNext(elem)))

RECURSIVE evaluated_by_next(_)
(* node->next(): a filtered node's tail runs build_filtered(elem->next()); *)
(* a normalised node's tail forces the filtered node under it.             *)
evaluated_by_next(p) ==
    CASE p.kind = "filt" -> evaluated_by_build(NodeNext(p.src))
      [] p.kind = "norm" -> evaluated_by_next(p.src)

RECURSIVE evaluated_until(_, _)
evaluated_until(p, target) ==
    IF p = target \/ IsNull(p) \/ p.kind = "threw" THEN <<>>
    ELSE evaluated_by_next(p) \o evaluated_until(NodeNext(p), target)

(* Every predicate call since observe's filter was constructed. *)
EvaluatedSoFar ==
    IF pc = "start" THEN <<>>
    ELSE evaluated_by_build(rf1.head) \o evaluated_until(observe(rf1, dedup).head, cur.node)

RECURSIVE StepsUntil(_, _)
(* Number of tails forced between node p and the iterator's node. *)
StepsUntil(p, target) ==
    IF p = target \/ IsNull(p) \/ p.kind = "threw" THEN 0
    ELSE 1 + StepsUntil(NodeNext(p), target)

(* Index of the t-th source element the predicate accepts, or the length   *)
(* of the source when there are fewer.                                     *)
MatchIndex(t) ==
    LET hits == {i \in 1..Len(heap) :
                    /\ heap[i].value \in pred
                    /\ Cardinality({j \in 1..i : heap[j].value \in pred}) = t}
    IN  IF hits = {} THEN Len(heap) ELSE CHOOSE i \in hits : TRUE

----------------------------------------------------------------------------
(* The input tails forced since merge was called. *)
ForcedSoFar ==
    IF pc = "start" THEN {}
    ELSE TailsForcedUntil(merge(rf1, rf2, dedup).head, cur.node)

RECURSIVE ElementId(_)
(* The input node whose element node p carries. *)
ElementId(p) ==
    CASE p.kind = "heap" -> p.id
      [] p.kind = "copy" -> ElementId(p.src)
      [] p.kind = "merged" -> IF p.side = 1 THEN ElementId(p.n1) ELSE ElementId(p.n2)

RECURSIVE OneTailEach(_, _)
(* Every node from p up to target forces, with its tail, the tail of the   *)
(* input node its element was taken from and no other.                     *)
OneTailEach(p, target) ==
    IF p = target \/ IsNull(p) THEN TRUE
    ELSE TailsForced(p) = {ElementId(p)} /\ OneTailEach(NodeNext(p), target)

----------------------------------------------------------------------------
(* Whether the sum of node i's rank and delta exceeds max_finite_value. *)
SumOverflows(i) ==
    /\ ~heap[i].rank.is_infinity /\ ~delta.is_infinity
    /\ heap[i].rank.value + delta.value > max_finite_value

(* Number of leading nodes of rf1 whose sum does not overflow. *)
SoundPrefix ==
    LET bad == {i \in 1..Len(heap) : SumOverflows(i)}
    IN  IF bad = {} THEN Len(heap) ELSE (CHOOSE i \in bad : \A j \in bad : i <= j) - 1

(* Node i of rf1 with delta added to its rank in the integers. *)
ShiftedPair(i) ==
    [value |-> heap[i].value,
     rank |-> IF heap[i].rank.is_infinity \/ delta.is_infinity THEN infinity
              ELSE Rank(heap[i].rank.value + delta.value, FALSE)]

(* C29: shift_ranks(rf1, delta) keeps rf1's flag and yields rf1's values   *)
(* with delta added to each rank (infinity stays infinity) up to the first *)
(* node whose sum overflows, where the iteration ends in the overflow      *)
(* failure; no yielded rank is a wrapped sum.                              *)
C29_ShiftRanks ==
    (op = "shift_ranks" /\ pc \in {"end", "threw"})
        => /\ iterDedup = rf1.dedup
           /\ Pairs(out) = YieldedFrom([i \in 1..SoundPrefix |-> ShiftedPair(i)], rf1.dedup)
           /\ (pc = "threw") = (SoundPrefix < Len(heap))
           /\ pc = "threw" => cur.node = [kind |-> "threw", what |-> "overflow_error"]

(* Two elements were yielded with a non-zero shift before a later node's   *)
(* sum overflowed.                                                         *)
C29_Witness ==
    /\ op = "shift_ranks" /\ pc = "threw"
    /\ Len(out) = 2
    /\ delta.value > 0
    /\ out[2].rank.value = max_finite_value

----------------------------------------------------------------------------
============================================================================
